---- MODULE Spec2Model ----
(***************************************************************************)
(* The upgrade command of the kubectl-openebs plugin: the preflight        *)
(* pipeline, the five-object upgrade bundle (create / delete fan-outs),    *)
(* the purge of older upgrade events and the bounded poll loop of          *)
(* apply_upgrade, run against a model of the cluster API (objects keyed by *)
(* kind, namespace and name; the Events of the upgrade Job).               *)
(***************************************************************************)
EXTENDS Integers, Sequences, FiniteSets, TLC

VARIABLES
    args,         \* UpgradeCommonArgs + build tag: [release, ns, tag]
    prev,         \* the previous invocation ended in rollback (ROLLED_BACK)
    pc,           \* position of the CLI process
    result,       \* Result of the invocation: "none" | "ok" | "err" | "interrupted"
    pfMustFail,   \* the preflight input had a failing, non-skipped check on an enabled release
    present,      \* identities of live cluster objects
    terminating,  \* identities with a deletionTimestamp (foreground deletion in progress)
    events,       \* Events regarding the upgrade Job
    ctask,        \* create fan-out: kind -> task state / API answer
    dtask,        \* delete fan-out: kind -> task state / API answer
    purged,       \* delete_older_upgrade_events has returned Ok in this invocation
    polls,        \* event lists issued by the poll loop of this invocation
    latest,       \* the event get_latest_upgrade_event returned, or NoEvent
    console,      \* what the poll loop of this invocation has printed
    faults,       \* API / environment failures injected so far
    made,         \* identities computed by the create path (name functions)
    targeted,     \* identities computed by the delete path (name functions)
    input,        \* the arguments of the function under study (a tuple)
    output        \* <<what it returned>>, or <<>> before it returns

vars == <<args, prev, pc, result, pfMustFail, present, terminating, events,
          ctask, dtask, purged, polls, latest, console, faults, made, targeted,
          input, output>>

----------------------------------------------------------------------------
(* Bounds of the model.                                                    *)
MaxEvents == 1
MaxFaults == 1
MaxListLen == 3
MaxVolumes == 3
MaxNodes == 3
MaxObjects == 3

(* for _ in 0..6 *)
PollAttempts == 6

----------------------------------------------------------------------------
(* Strings are sequences of tokens; "-" and "." are tokens of their own,   *)
(* so that format! is concatenation and replace('.', "-") is a rewrite.    *)

Kinds == {"ServiceAccount", "ClusterRoleBinding", "ClusterRole", "ConfigMap", "Job"}

(* Api::all: the request carries no namespace.                             *)
ClusterScope == "<cluster>"

Releases == {<<"openebs">>, <<"my", "-", "upgrade">>, <<"r", ".", "1">>}
Namespaces == {"openebs", "storage", "default"}
Tags == {<<"4", ".", "3", ".", "0">>, <<"v4", ".", "3", ".", "0", "-", "rc", ".", "1">>, <<"develop">>}

DefaultArgs == [release |-> <<"openebs">>, ns |-> "openebs", tag |-> <<"4", ".", "3", ".", "0">>]

get_destination_version_tag(a) == a.tag

upgrade_obj_suffix(a) ==
    LET t == get_destination_version_tag(a)
    IN  [i \in 1..Len(t) |-> IF t[i] = "." THEN "-" ELSE t[i]]

upgrade_name_concat(a, component) ==
    a.release \o <<"-">> \o component \o <<"-">> \o upgrade_obj_suffix(a)

Identity(kind, ns, name) == [kind |-> kind, ns |-> ns, name |-> name]

(* create_upgrade_resources with the ClusterRoleBinding request carrying   *)
(* the ClusterRole object.                                                 *)
CreateIdentity_binding_as_role(k, a) ==
    CASE k = "ServiceAccount" ->
            Identity(k, a.ns, upgrade_name_concat(a, <<"upgrade", "-", "service", "-", "account">>))
      [] k = "ClusterRoleBinding" ->
            Identity("ClusterRole", ClusterScope, upgrade_name_concat(a, <<"upgrade", "-", "role">>))
      [] k = "ClusterRole" ->
            Identity(k, ClusterScope, upgrade_name_concat(a, <<"upgrade", "-", "role">>))
      [] k = "ConfigMap" ->
            Identity(k, a.ns,
                     a.release \o <<"-", "upgrade", "-", "config", "-", "map", "-">> \o upgrade_obj_suffix(a))
      [] k = "Job" ->
            Identity(k, a.ns, a.release \o <<"-", "upgrade", "-">> \o upgrade_obj_suffix(a))

(* The object each of the five create requests carries, as the cluster     *)
(* keys it: create_upgrade_resources and the builders it calls.            *)
CreateIdentity(k, a) ==
    CASE k = "ServiceAccount" ->
            Identity(k, a.ns, upgrade_name_concat(a, <<"upgrade", "-", "service", "-", "account">>))
      [] k = "ClusterRoleBinding" ->
            Identity(k, ClusterScope,
                     a.release \o <<"-", "upgrade", "-", "role", "-", "binding", "-">> \o upgrade_obj_suffix(a))
      [] k = "ClusterRole" ->
            Identity(k, ClusterScope, upgrade_name_concat(a, <<"upgrade", "-", "role">>))
      [] k = "ConfigMap" ->
            Identity(k, a.ns,
                     a.release \o <<"-", "upgrade", "-", "config", "-", "map", "-">> \o upgrade_obj_suffix(a))
      [] k = "Job" ->
            Identity(k, a.ns, a.release \o <<"-", "upgrade", "-">> \o upgrade_obj_suffix(a))

(* delete_upgrade_resources with the ClusterRoleBinding deleted under the   *)
(* ClusterRole's name.                                                     *)
DeleteIdentity_role_for_binding(k, a) ==
    CASE k = "Job" ->
            Identity(k, a.ns, a.release \o <<"-", "upgrade", "-">> \o upgrade_obj_suffix(a))
      [] k = "ConfigMap" ->
            Identity(k, a.ns,
                     a.release \o <<"-", "upgrade", "-", "config", "-", "map", "-">> \o upgrade_obj_suffix(a))
      [] k = "ClusterRole" ->
            Identity(k, ClusterScope, upgrade_name_concat(a, <<"upgrade", "-", "role">>))
      [] k = "ClusterRoleBinding" ->
            Identity(k, ClusterScope, upgrade_name_concat(a, <<"upgrade", "-", "role">>))
      [] k = "ServiceAccount" ->
            Identity(k, a.ns, upgrade_name_concat(a, <<"upgrade", "-", "service", "-", "account">>))

(* The (client, name) pair of each of the five delete requests:            *)
(* delete_upgrade_resources.                                               *)
DeleteIdentity(k, a) ==
    CASE k = "Job" ->
            Identity(k, a.ns, a.release \o <<"-", "upgrade", "-">> \o upgrade_obj_suffix(a))
      [] k = "ConfigMap" ->
            Identity(k, a.ns,
                     a.release \o <<"-", "upgrade", "-", "config", "-", "map", "-">> \o upgrade_obj_suffix(a))
      [] k = "ClusterRole" ->
            Identity(k, ClusterScope, upgrade_name_concat(a, <<"upgrade", "-", "role">>))
      [] k = "ClusterRoleBinding" ->
            Identity(k, ClusterScope,
                     a.release \o <<"-", "upgrade", "-", "role", "-", "binding", "-">> \o upgrade_obj_suffix(a))
      [] k = "ServiceAccount" ->
            Identity(k, a.ns, upgrade_name_concat(a, <<"upgrade", "-", "service", "-", "account">>))

----------------------------------------------------------------------------
(* Preflight: upgrade_preflight_check.  An input is the resolved release   *)
(* (releaseOk: HelmRelease::new_from_cluster succeeded; enabled:           *)
(* mayastor_is_enabled), the four skip flags of UpgradeCommonArgs and, per *)
(* check, whether the cluster state makes that check fail.                 *)

CheckOrder == <<"path", "rebuild", "cordon", "single">>
Checks == {CheckOrder[i] : i \in 1..Len(CheckOrder)}

PreflightInputs ==
    [releaseOk : BOOLEAN, enabled : BOOLEAN, configOk : BOOLEAN, clientOk : BOOLEAN,
     skip : [Checks -> BOOLEAN], fail : [Checks -> BOOLEAN]]

PreflightOk(ran) == [res |-> "ok", ran |-> ran, failed |-> "none"]
PreflightErr(ran, c) == [res |-> "err", ran |-> ran, failed |-> c]

(* The check runs but its error is dropped (no `?`).                        *)
CheckStep_dropping_error(in, c, sofar) ==
    IF sofar.res = "err" \/ in.skip[c] THEN sofar
    ELSE PreflightOk(Append(sofar.ran, c))

(* if !args.skip_<c> { <c>_validation(..).await?; }                        *)
CheckStep(in, c, sofar) ==
    IF sofar.res = "err" \/ in.skip[c] THEN sofar
    ELSE IF in.fail[c] THEN PreflightErr(Append(sofar.ran, c), c)
    ELSE PreflightOk(Append(sofar.ran, c))

(* let k8s_client = args.ctx.client().await?; inside the branch of the     *)
(* single-replica check.                                                   *)
ClientStep(in, sofar) ==
    IF sofar.res = "err" \/ in.skip["single"] \/ in.clientOk THEN sofar
    ELSE PreflightErr(sofar.ran, "client")

(* The rebuild check and the cordoned-nodes check in each other's place.   *)
upgrade_preflight_check_cordon_first(in) ==
    IF ~in.releaseOk THEN PreflightErr(<<>>, "release")
    ELSE IF ~in.enabled THEN PreflightOk(<<>>)
    ELSE IF ~in.configOk THEN PreflightErr(<<>>, "config")
    ELSE CheckStep(in, "single",
           ClientStep(in,
             CheckStep(in, "rebuild",
               CheckStep(in, "cordon",
                 CheckStep(in, "path", PreflightOk(<<>>))))))

(* The checks run whatever mayastor_is_enabled says.                       *)
upgrade_preflight_check_engine_unchecked(in) ==
    IF ~in.releaseOk THEN PreflightErr(<<>>, "release")
    ELSE IF ~in.configOk THEN PreflightErr(<<>>, "config")
    ELSE CheckStep(in, "single",
           ClientStep(in,
             CheckStep(in, "cordon",
               CheckStep(in, "rebuild",
                 CheckStep(in, "path", PreflightOk(<<>>))))))

upgrade_preflight_check(in) ==
    IF ~in.releaseOk THEN PreflightErr(<<>>, "release")
    ELSE IF ~in.enabled THEN PreflightOk(<<>>)
    ELSE IF ~in.configOk THEN PreflightErr(<<>>, "config")
    ELSE CheckStep(in, "single",
           ClientStep(in,
             CheckStep(in, "cordon",
               CheckStep(in, "rebuild",
                 CheckStep(in, "path", PreflightOk(<<>>))))))

----------------------------------------------------------------------------
(* Events regarding the upgrade Job.  old marks an event that existed when *)
(* the current invocation started (history only: no code reads it).        *)

NoEvent == [reason |-> "-", action |-> "-", note |-> "-", time |-> 0, old |-> FALSE]

(* event_time is the reporter's clock when it posts the Event: that of a   *)
(* new Event ties with the latest one or is later.                         *)
LastTime(evs) == CHOOSE t \in {e.time : e \in evs} : \A e \in evs : e.time <= t
NextTimes(evs) == IF evs = {} THEN {1} ELSE {LastTime(evs), LastTime(evs) + 1}

EventShapes ==
    { [reason |-> "Other",          action |-> "none",              note |-> "none"],
      [reason |-> "OpenebsUpgrade", action |-> "none",              note |-> "none"],
      [reason |-> "OpenebsUpgrade", action |-> "Upgrading",         note |-> "json"],
      [reason |-> "OpenebsUpgrade", action |-> "Validation Failed", note |-> "json"],
      [reason |-> "OpenebsUpgrade", action |-> "Validation Failed", note |-> "bad"],
      [reason |-> "OpenebsUpgrade", action |-> "Validation Failed", note |-> "none"] }

MkEvent(shape, t) ==
    [reason |-> shape.reason, action |-> shape.action, note |-> shape.note,
     time |-> t, old |-> FALSE]

(* max_by_key without the filter on the reason.                            *)
max_by_key_event_time_unfiltered(list) ==
    IF list = <<>> THEN NoEvent
    ELSE list[CHOOSE i \in 1..Len(list) :
                \A j \in 1..Len(list) : \/ list[j].time < list[i].time
                                        \/ list[j].time = list[i].time /\ j <= i]

(* .into_iter().filter(reason == "OpenebsUpgrade").max_by_key(event_time)  *)
(* over the list list_events returned: Iterator::max_by_key returns the    *)
(* last of the elements of maximal key; a missing event_time (None,        *)
(* time 0) is below every time.  NoEvent stands for                        *)
(* Err("No upgrade event present").                                        *)
max_by_key_event_time(list) ==
    LET known == {i \in 1..Len(list) : list[i].reason = "OpenebsUpgrade"}
    IN  IF known = {} THEN NoEvent
        ELSE list[CHOOSE i \in known :
                    \A j \in known : \/ list[j].time < list[i].time
                                     \/ list[j].time = list[i].time /\ j <= i]

(* The lists the server may return for a set of Events (its order is by    *)
(* the Events' names, which the set does not record).                      *)
ListsOf(evs) ==
    {l \in [1..Cardinality(evs) -> evs] : \A i, j \in DOMAIN l : l[i] = l[j] => i = j}

(* get_latest_upgrade_event on the cluster's Events: the set of events the *)
(* call may return; empty when it returns Err("No upgrade event present"). *)
get_latest_upgrade_event(evs) ==
    {max_by_key_event_time(l) : l \in ListsOf(evs)} \ {NoEvent}

(* Every action taken for "Validation Failed" (the comparison left out).   *)
handle_upgrade_event_any_action(e) ==
    IF e.action # "none"
    THEN IF e.note # "none"
         THEN IF e.note = "json" THEN "rollback" ELSE "err"
         ELSE "err"
    ELSE "silent"

(* The rollback started before the note is looked at.                      *)
handle_upgrade_event_deleting_first(e) ==
    IF e.action # "none"
    THEN IF e.action = "Validation Failed" THEN "rollback" ELSE "started"
    ELSE "silent"

(* handle_upgrade_event, up to the call of delete_upgrade_resources.       *)
handle_upgrade_event(e) ==
    IF e.action # "none"
    THEN IF e.action = "Validation Failed"
         THEN IF e.note # "none"
              THEN IF e.note = "json" THEN "rollback" ELSE "err"
              ELSE "err"
         ELSE "started"
    ELSE "silent"

----------------------------------------------------------------------------
(* The fan-outs.  A task is "none" (not spawned), "spawned" (request not   *)
(* yet answered), the API answer once it has one, or "ok" / "err" once     *)
(* try_join! has taken its Result from the JoinHandle.                     *)

NoTasks == [k \in Kinds |-> "none"]
Spawned == [k \in Kinds |-> "spawned"]

(* Every non-2xx answer is an error (no AlreadyExists arm).                 *)
idempotent_create_resource_strict(answer) ==
    IF answer = "Created" THEN "ok" ELSE "err"

(* idempotent_create_resource: the Result it maps the API answer to.       *)
idempotent_create_resource(answer) ==
    IF answer = "Created" THEN "ok"
    ELSE IF answer = "AlreadyExists" THEN "ok"
    ELSE "err"

(* Every non-2xx answer is an error (no NotFound arm).                      *)
idempotent_delete_resource_strict(answer) ==
    IF answer = "Deleted" THEN "ok" ELSE "err"

(* idempotent_delete_resource: the Result it maps the API answer to.       *)
idempotent_delete_resource(answer) ==
    IF answer = "Deleted" THEN "ok"
    ELSE IF answer = "NotFound" THEN "ok"
    ELSE "err"

ApiAnswers == {"Created", "AlreadyExists", "Deleted", "NotFound", "ApiError"}

Answered(t, k) == t[k] \in ApiAnswers

(* joined_flatten over the handles try_join! has polled to completion.     *)
CreateJoined(t) ==
    [k \in Kinds |-> IF Answered(t, k) THEN idempotent_create_resource(t[k]) ELSE t[k]]

DeleteJoined(t) ==
    [k \in Kinds |-> IF Answered(t, k) THEN idempotent_delete_resource(t[k]) ELSE t[k]]

(* A join that returns with the first task that returns (select, not join). *)
CreateJoin_first(t) ==
    IF \E k \in Kinds : Answered(t, k) /\ idempotent_create_resource(t[k]) = "err" THEN "err"
    ELSE IF \E k \in Kinds : Answered(t, k) THEN "ok"
    ELSE "pending"

(* try_join!: Ok once every task returned Ok, Err as soon as one returned  *)
(* Err, pending otherwise.                                                 *)
CreateJoin(t) ==
    IF \E k \in Kinds : Answered(t, k) /\ idempotent_create_resource(t[k]) = "err" THEN "err"
    ELSE IF \A k \in Kinds : Answered(t, k) THEN "ok"
    ELSE "pending"

(* The Results of the tasks discarded (join_all, no `?`).                  *)
DeleteJoin_discarding_results(t) ==
    IF \A k \in Kinds : Answered(t, k) THEN "ok" ELSE "pending"

DeleteJoin(t) ==
    IF \E k \in Kinds : Answered(t, k) /\ idempotent_delete_resource(t[k]) = "err" THEN "err"
    ELSE IF \A k \in Kinds : Answered(t, k) THEN "ok"
    ELSE "pending"

JobExists == CreateIdentity("Job", args) \in present \cup terminating


----------------------------------------------------------------------------
(* The state after construction: no invocation yet, an empty cluster.      *)

Init ==
    /\ args = DefaultArgs
    /\ prev = FALSE
    /\ pc = "idle"
    /\ result = "none"
    /\ pfMustFail = FALSE
    /\ present = {}
    /\ terminating = {}
    /\ events = {}
    /\ ctask = NoTasks
    /\ dtask = NoTasks
    /\ purged = FALSE
    /\ polls = 0
    /\ latest = NoEvent
    /\ console = {}
    /\ faults = 0
    /\ made = {}
    /\ targeted = {}
    /\ input = <<>>
    /\ output = <<>>

NamesUnchanged == UNCHANGED <<args, made, targeted, input, output>>

Finish(r) == pc' = "done" /\ result' = r

(* The terminal state of section 4.5 the finished invocation reached.      *)
Outcome ==
    IF result = "none" THEN "none"
    ELSE IF result \in {"err", "interrupted"} THEN "error"
    ELSE IF latest = NoEvent THEN "timed_out"
    ELSE IF dtask # NoTasks THEN "rolled_back"
    ELSE "in_progress"

(* A new invocation of `kubectl openebs upgrade` (main).  The process of   *)
(* the previous one has exited (main returned or std::process::exit): its  *)
(* tasks that were still running died with the runtime.                    *)
Start ==
    /\ pc \in {"idle", "done"}
    /\ prev' = (Outcome = "rolled_back")
    /\ events' = {[e EXCEPT !.old = TRUE] : e \in events}
    /\ pc' = "preflight"
    /\ result' = "none"
    /\ pfMustFail' = FALSE
    /\ ctask' = NoTasks
    /\ dtask' = NoTasks
    /\ purged' = FALSE
    /\ polls' = 0
    /\ latest' = NoEvent
    /\ console' = {}
    /\ UNCHANGED <<present, terminating, faults>>
    /\ NamesUnchanged

(* A non-skipped check fails for a release whose engine is enabled.        *)
MustFail(in) ==
    in.releaseOk /\ in.enabled /\ \E c \in Checks : ~in.skip[c] /\ in.fail[c]

(* What upgrade_preflight_check returns, over all the inputs.              *)
PreflightRuns ==
    {[must |-> MustFail(in), res |-> upgrade_preflight_check(in).res] : in \in PreflightInputs}

(* The upgrade command: validate, then provision and poll.  The preflight  *)
(* runs first and its error ends the invocation.                           *)
ExecuteUpgradeWith(must, res) ==
    /\ pfMustFail' = must
    /\ IF res = "err"
       THEN Finish("err")
       ELSE pc' = "purge" /\ result' = result
    /\ UNCHANGED <<prev, present, terminating, events, ctask, dtask, purged,
                   polls, latest, console, faults>>
    /\ UNCHANGED <<args, made, targeted>>

ExecuteUpgrade ==
    /\ pc = "preflight"
    /\ \E run \in PreflightRuns : ExecuteUpgradeWith(run.must, run.res)
    /\ UNCHANGED <<input, output>>

(* The list without the delete_collection.                                  *)
delete_older_upgrade_events_list_only(evs) == evs

(* delete_older_upgrade_events: list, then delete_collection on the field  *)
(* selector of the Job's name; the Events left.                            *)
delete_older_upgrade_events(evs) == {}

(* apply_upgrade, lines 536-547: the client, the field selector, then      *)
(* delete_older_upgrade_events(..).await?                                  *)

DeleteOlderEvents ==
    /\ pc = "purge"
    /\ \/ /\ events' = delete_older_upgrade_events(events)
          /\ purged' = TRUE
          /\ pc' = "provision"
          /\ UNCHANGED <<result, faults>>
       \/ /\ faults < MaxFaults
          /\ faults' = faults + 1
          /\ Finish("err")
          /\ UNCHANGED <<events, purged>>
    /\ UNCHANGED <<prev, pfMustFail, present, terminating, ctask, dtask,
                   polls, latest, console>>
    /\ NamesUnchanged

(* create_upgrade_resources up to try_join!: the five objects are built    *)
(* (config_map_data, job_set_file_args and upgrade_job may each fail) and  *)
(* the five tasks are spawned.                                             *)
SpawnCreates ==
    /\ pc = "provision"
    /\ \/ /\ ctask' = Spawned
          /\ pc' = "creating"
          /\ UNCHANGED <<result, faults>>
       \/ /\ faults < MaxFaults
          /\ faults' = faults + 1
          /\ Finish("err")
          /\ UNCHANGED ctask
    /\ UNCHANGED <<prev, pfMustFail, present, terminating, events, dtask,
                   purged, polls, latest, console>>
    /\ NamesUnchanged

(* One spawned idempotent_create_resource: client.create and its answer    *)
(* (the line it prints, "Created .." or ".. already exists", says what the *)
(* answer was and is not recorded apart from it).                          *)
CreateTask(k) ==
    /\ pc \in {"creating", "done"}
    /\ ctask[k] = "spawned"
    /\ LET id == CreateIdentity(k, args)
       IN  \/ /\ id \in present \cup terminating
              /\ ctask' = [ctask EXCEPT ![k] = "AlreadyExists"]
              /\ UNCHANGED <<present, faults>>
           \/ /\ id \notin present \cup terminating
              /\ ctask' = [ctask EXCEPT ![k] = "Created"]
              /\ present' = present \cup {id}
              /\ UNCHANGED faults
           \/ /\ faults < MaxFaults
              /\ faults' = faults + 1
              /\ ctask' = [ctask EXCEPT ![k] = "ApiError"]
              /\ UNCHANGED present
    /\ UNCHANGED <<prev, pc, result, pfMustFail, terminating, events, dtask,
                   purged, polls, latest, console>>
    /\ NamesUnchanged

(* A failed fan-out spawned again instead of returned.                     *)
JoinCreates_retrying ==
    /\ pc = "creating"
    /\ CreateJoin(ctask) # "pending"
    /\ IF CreateJoin(ctask) = "ok"
       THEN pc' = "poll" /\ ctask' = CreateJoined(ctask)
       ELSE pc' = pc /\ ctask' = Spawned
    /\ UNCHANGED <<prev, result, pfMustFail, present, terminating, events,
                   dtask, purged, polls, latest, console, faults>>
    /\ NamesUnchanged

(* The tasks still running aborted when try_join! returns the error.       *)
JoinCreates_aborting_the_rest ==
    /\ pc = "creating"
    /\ CreateJoin(ctask) # "pending"
    /\ IF CreateJoin(ctask) = "ok"
       THEN pc' = "poll" /\ result' = result
       ELSE Finish("err")
    /\ ctask' = [k \in Kinds |-> IF Answered(ctask, k)
                                  THEN idempotent_create_resource(ctask[k])
                                  ELSE "err"]
    /\ UNCHANGED <<prev, pfMustFail, present, terminating, events,
                   dtask, purged, polls, latest, console, faults>>
    /\ NamesUnchanged

(* try_join! of create_upgrade_resources and the `?` of apply_upgrade.     *)
JoinCreates ==
    /\ pc = "creating"
    /\ CreateJoin(ctask) # "pending"
    /\ IF CreateJoin(ctask) = "ok"
       THEN pc' = "poll" /\ result' = result
       ELSE Finish("err")
    /\ ctask' = CreateJoined(ctask)
    /\ UNCHANGED <<prev, pfMustFail, present, terminating, events,
                   dtask, purged, polls, latest, console, faults>>
    /\ NamesUnchanged

(* One iteration of `for _ in 0..6`: the sleep, get_latest_upgrade_event   *)
(* (list_events may fail: Err(_) => continue), then handle_upgrade_event   *)
(* up to its call of delete_upgrade_resources, where the five delete tasks *)
(* are spawned.                                                            *)
(* The loop ending with an error once the attempts are used up.            *)
PollMiss_error_when_exhausted ==
    /\ polls' = polls + 1
    /\ IF polls + 1 = PollAttempts
       THEN Finish("err")
       ELSE pc' = pc /\ result' = result
    /\ UNCHANGED <<latest, console, dtask>>

PollMiss ==
    /\ polls' = polls + 1
    /\ IF polls + 1 = PollAttempts
       THEN Finish("ok")
       ELSE pc' = pc /\ result' = result
    /\ UNCHANGED <<latest, console, dtask>>

(* The poll loop without its `break` after an event of another action.     *)
PollHit_without_break(e) ==
    LET h == handle_upgrade_event(e)
    IN  /\ polls' = polls + 1
        /\ latest' = e
        /\ CASE h = "rollback" ->
                  /\ console' = console \cup {"validation failed"}
                  /\ dtask' = Spawned
                  /\ pc' = "deleting"
                  /\ result' = result
             [] h = "err" ->
                  /\ Finish("err")
                  /\ UNCHANGED <<console, dtask>>
             [] h = "started" ->
                  /\ console' = console \cup {"upgrade started"}
                  /\ IF polls + 1 = PollAttempts
                     THEN Finish("ok")
                     ELSE pc' = pc /\ result' = result
                  /\ UNCHANGED dtask
             [] h = "silent" ->
                  /\ Finish("ok")
                  /\ UNCHANGED <<console, dtask>>

PollHit(e) ==
    LET h == handle_upgrade_event(e)
    IN  /\ polls' = polls + 1
        /\ latest' = e
        /\ CASE h = "rollback" ->
                  /\ console' = console \cup {"validation failed"}
                  /\ dtask' = Spawned
                  /\ pc' = "deleting"
                  /\ result' = result
             [] h = "err" ->
                  /\ Finish("err")
                  /\ UNCHANGED <<console, dtask>>
             [] h = "started" ->
                  /\ console' = console \cup {"upgrade started"}
                  /\ Finish("ok")
                  /\ UNCHANGED dtask
             [] h = "silent" ->
                  /\ Finish("ok")
                  /\ UNCHANGED <<console, dtask>>

(* The error of get_latest_upgrade_event propagated with `?`.               *)
Poll_failing_on_list_error ==
    /\ pc = "poll"
    /\ polls < PollAttempts
    /\ \/ /\ get_latest_upgrade_event(events) = {}
          /\ PollMiss
          /\ UNCHANGED faults
       \/ /\ faults < MaxFaults
          /\ faults' = faults + 1
          /\ polls' = polls + 1
          /\ Finish("err")
          /\ UNCHANGED <<latest, console, dtask>>
       \/ /\ \E e \in get_latest_upgrade_event(events) : PollHit(e)
          /\ UNCHANGED faults
    /\ UNCHANGED <<prev, pfMustFail, present, terminating, events, ctask, purged>>
    /\ NamesUnchanged

Poll ==
    /\ pc = "poll"
    /\ polls < PollAttempts
    /\ \/ /\ get_latest_upgrade_event(events) = {}
          /\ PollMiss
          /\ UNCHANGED faults
       \/ /\ faults < MaxFaults
          /\ faults' = faults + 1
          /\ PollMiss
       \/ /\ \E e \in get_latest_upgrade_event(events) : PollHit(e)
          /\ UNCHANGED faults
    /\ UNCHANGED <<prev, pfMustFail, present, terminating, events, ctask, purged>>
    /\ NamesUnchanged

(* The cluster: an object with dependents (the Job owns its Pods) has its  *)
(* foreground deletion completed later by the garbage collector; until     *)
(* then it keeps its name, with a deletionTimestamp.                       *)
HasDependents(k) == k = "Job"

(* One spawned idempotent_delete_resource: client.delete with              *)
(* DeleteParams::foreground() and its answer (Either::Left, the object     *)
(* being deleted, and Either::Right, the final Status, are both taken as   *)
(* done).                                                                  *)
DeleteTask(k) ==
    /\ pc \in {"deleting", "done"}
    /\ dtask[k] = "spawned"
    /\ LET id == DeleteIdentity(k, args)
       IN  \/ /\ id \in present
              /\ dtask' = [dtask EXCEPT ![k] = "Deleted"]
              /\ present' = present \ {id}
              /\ terminating' = IF HasDependents(k) THEN terminating \cup {id}
                                ELSE terminating
              /\ UNCHANGED faults
           \/ /\ id \in terminating
              /\ dtask' = [dtask EXCEPT ![k] = "Deleted"]
              /\ UNCHANGED <<present, terminating, faults>>
           \/ /\ id \notin present \cup terminating
              /\ dtask' = [dtask EXCEPT ![k] = "NotFound"]
              /\ UNCHANGED <<present, terminating, faults>>
           \/ /\ faults < MaxFaults
              /\ faults' = faults + 1
              /\ dtask' = [dtask EXCEPT ![k] = "ApiError"]
              /\ UNCHANGED <<present, terminating>>
    /\ UNCHANGED <<prev, pc, result, pfMustFail, events, ctask, purged,
                   polls, latest, console>>
    /\ NamesUnchanged

(* try_join! of delete_upgrade_resources, the `?` of handle_upgrade_event  *)
(* and of apply_upgrade, then `break`.                                     *)
JoinDeletes ==
    /\ pc = "deleting"
    /\ DeleteJoin(dtask) # "pending"
    /\ Finish(DeleteJoin(dtask))
    /\ dtask' = DeleteJoined(dtask)
    /\ UNCHANGED <<prev, pfMustFail, present, terminating, events, ctask,
                   purged, polls, latest, console, faults>>
    /\ NamesUnchanged

(* The cluster: the upgrade Job (while its object exists) and the Job      *)
(* controller post Events regarding the Job.                               *)
PostEvent ==
    /\ pc = "poll"
    /\ JobExists
    /\ Cardinality(events) < MaxEvents
    /\ \E shape \in EventShapes, t \in NextTimes(events) :
         events' = events \cup {MkEvent(shape, t)}
    /\ UNCHANGED <<prev, pc, result, pfMustFail, present, terminating, ctask,
                   dtask, purged, polls, latest, console, faults>>
    /\ NamesUnchanged

(* The cluster: the garbage collector completes a foreground deletion.     *)
Finalize ==
    /\ \E id \in terminating : terminating' = terminating \ {id}
    /\ UNCHANGED <<prev, pc, result, pfMustFail, present, events, ctask,
                   dtask, purged, polls, latest, console, faults>>
    /\ NamesUnchanged

(* CliArgs::execute with the signal branch of tokio::select! followed by   *)
(* delete_upgrade_resources.                                               *)
Interrupt_rolling_back ==
    /\ pc \in {"preflight", "purge", "provision", "creating", "poll", "deleting"}
    /\ Finish("interrupted")
    /\ dtask' = Spawned
    /\ UNCHANGED <<prev, pfMustFail, present, terminating, events, ctask,
                   purged, polls, latest, console, faults>>
    /\ NamesUnchanged

(* CliArgs::execute: Shutdown::wait_sig() completes before the operation   *)
(* does; tokio::select! drops the operation's future where it awaits and   *)
(* the result is Err("Interrupted by ..").  The tasks already spawned stay *)
(* on the runtime until the process exits.                                 *)
Interrupt ==
    /\ pc \in {"preflight", "purge", "provision", "creating", "poll", "deleting"}
    /\ Finish("interrupted")
    /\ UNCHANGED <<prev, pfMustFail, present, terminating, events, ctask,
                   dtask, purged, polls, latest, console, faults>>
    /\ NamesUnchanged

Next ==
    \/ Start
    \/ ExecuteUpgrade
    \/ DeleteOlderEvents
    \/ SpawnCreates
    \/ \E k \in Kinds : CreateTask(k)
    \/ JoinCreates
    \/ Poll
    \/ \E k \in Kinds : DeleteTask(k)
    \/ JoinDeletes
    \/ PostEvent
    \/ Finalize
    \/ Interrupt

Spec == Init /\ [][Next]_vars

(***************************************************************************)
(* The poll loop of apply_upgrade on its own: the bundle has been created, *)
(* and the upgrade Job goes on posting Events whether or not the command   *)
(* still polls.  Earlier attempts have met all the API faults but one.     *)
(***************************************************************************)
MaxLateEvents == 2

InitPoll ==
    /\ args = DefaultArgs
    /\ prev = FALSE
    /\ pc = "poll"
    /\ result = "none"
    /\ pfMustFail = FALSE
    /\ present = {CreateIdentity(k, DefaultArgs) : k \in Kinds}
    /\ terminating = {}
    /\ events = {}
    /\ ctask = [k \in Kinds |-> "ok"]
    /\ dtask = NoTasks
    /\ purged = TRUE
    /\ polls = 0
    /\ latest = NoEvent
    /\ console = {}
    /\ faults = MaxFaults - 1
    /\ made = {}
    /\ targeted = {}
    /\ input = <<>>
    /\ output = <<>>

(* The upgrade Job and the Job controller post Events while the Job        *)
(* exists, during the poll loop and after the command has returned (the    *)
(* Events posted during a rollback are read by nobody and are left out).   *)
PostEventAnytime ==
    /\ pc \in {"poll", "done"}
    /\ JobExists
    /\ Cardinality(events) < MaxLateEvents
    /\ \E shape \in EventShapes, t \in NextTimes(events) :
         events' = events \cup {MkEvent(shape, t)}
    /\ UNCHANGED <<prev, pc, result, pfMustFail, present, terminating, ctask,
                   dtask, purged, polls, latest, console, faults>>
    /\ NamesUnchanged

NextPoll ==
    \/ Poll
    \/ PostEventAnytime
    \/ \E k \in Kinds : DeleteTask(k)
    \/ JoinDeletes
    \/ Finalize

SpecPoll == InitPoll /\ [][NextPoll]_vars

(* The steps of the CLI process: the main future and the tasks it spawned. *)
ProcessNext ==
    \/ ExecuteUpgrade
    \/ DeleteOlderEvents
    \/ SpawnCreates
    \/ \E k \in Kinds : CreateTask(k)
    \/ JoinCreates
    \/ Poll
    \/ \E k \in Kinds : DeleteTask(k)
    \/ JoinDeletes

----------------------------------------------------------------------------
(* The names alone: for any release name, namespace and build tag, the     *)
(* identities create_upgrade_resources builds and the identities           *)
(* delete_upgrade_resources addresses, one kind at a time.                 *)

InitNames ==
    /\ args \in [release : Releases, ns : Namespaces, tag : Tags]
    /\ made = {}
    /\ targeted = {}
    /\ input = <<>>
    /\ output = <<>>
    /\ prev = FALSE
    /\ pc = "idle"
    /\ result = "none"
    /\ pfMustFail = FALSE
    /\ present = {}
    /\ terminating = {}
    /\ events = {}
    /\ ctask = NoTasks
    /\ dtask = NoTasks
    /\ purged = FALSE
    /\ polls = 0
    /\ latest = NoEvent
    /\ console = {}
    /\ faults = 0

ControlUnchanged ==
    UNCHANGED <<args, prev, pc, result, pfMustFail, present, terminating,
                events, ctask, dtask, purged, polls, latest, console, faults>>

BuildCreate(k) ==
    /\ made' = made \cup {CreateIdentity(k, args)}
    /\ UNCHANGED <<targeted, input, output>>
    /\ ControlUnchanged

BuildDelete(k) ==
    /\ targeted' = targeted \cup {DeleteIdentity(k, args)}
    /\ UNCHANGED <<made, input, output>>
    /\ ControlUnchanged

NextNames ==
    \/ \E k \in Kinds : BuildCreate(k)
    \/ \E k \in Kinds : BuildDelete(k)

SpecNames == InitNames /\ [][NextNames]_vars

(* The names one bundle object holds of another one.  upgrade_job with the *)
(* ServiceAccount named after the ClusterRole:                             *)
upgrade_job_running_as_role(a) ==
    [name |-> a.release \o <<"-", "upgrade", "-">> \o upgrade_obj_suffix(a),
     namespace |-> a.ns,
     service_account_name |->
        a.release \o <<"-", "upgrade", "-", "role", "-">> \o upgrade_obj_suffix(a),
     config_map_volume |->
        a.release \o <<"-", "upgrade", "-", "config", "-", "map", "-">>
            \o upgrade_obj_suffix(a)]

(* upgrade_job: metadata.name and namespace, the Pod's                     *)
(* service_account_name and the ConfigMap of its only volume.              *)
upgrade_job(a) ==
    [name |-> a.release \o <<"-", "upgrade", "-">> \o upgrade_obj_suffix(a),
     namespace |-> a.ns,
     service_account_name |->
        a.release \o <<"-", "upgrade", "-", "service", "-", "account", "-">>
            \o upgrade_obj_suffix(a),
     config_map_volume |->
        a.release \o <<"-", "upgrade", "-", "config", "-", "map", "-">>
            \o upgrade_obj_suffix(a)]

(* upgrade_job_cluster_role_binding: its role_ref and its one subject.     *)
upgrade_job_cluster_role_binding(a) ==
    [name |-> a.release \o <<"-", "upgrade", "-", "role", "-", "binding", "-">>
                \o upgrade_obj_suffix(a),
     role_ref |-> [kind |-> "ClusterRole",
                   name |-> a.release \o <<"-", "upgrade", "-", "role", "-">>
                                \o upgrade_obj_suffix(a)],
     subject |-> [kind |-> "ServiceAccount",
                  name |-> a.release
                            \o <<"-", "upgrade", "-", "service", "-", "account", "-">>
                            \o upgrade_obj_suffix(a),
                  namespace |-> a.ns]]

----------------------------------------------------------------------------
(* Two upgrade attempts of releases of one name in two namespaces of one   *)
(* cluster, by the same build of the plugin.  `present` is the cluster,    *)
(* `made` the ClusterRoleBindings as stored, `targeted` the (namespace,    *)
(* kind) pairs whose create was answered Ok (Created or AlreadyExists) and *)
(* not rolled back by their own attempt, `console` the namespaces whose    *)
(* attempt has started its rollback.                                       *)

TwoNamespaces == {"openebs", "storage"}

InNamespace(ns) == [args EXCEPT !.ns = ns]

Relies(ns, k) == [ns |-> ns, kind |-> k]

InitTwoNamespaces ==
    /\ args \in [release : Releases, ns : {"openebs"}, tag : Tags]
    /\ made = {}
    /\ targeted = {}
    /\ input = <<>>
    /\ output = <<>>
    /\ prev = FALSE
    /\ pc = "idle"
    /\ result = "none"
    /\ pfMustFail = FALSE
    /\ present = {}
    /\ terminating = {}
    /\ events = {}
    /\ ctask = NoTasks
    /\ dtask = NoTasks
    /\ purged = FALSE
    /\ polls = 0
    /\ latest = NoEvent
    /\ console = {}
    /\ faults = 0

(* One of the five creates of the attempt in namespace ns.                 *)
CreateIn(ns, k) ==
    /\ ns \notin console
    /\ Relies(ns, k) \notin targeted
    /\ LET a  == InNamespace(ns)
           id == CreateIdentity(k, a)
       IN  IF id \in present
           THEN UNCHANGED <<present, made>>
           ELSE /\ present' = present \cup {id}
                /\ made' = IF k = "ClusterRoleBinding"
                           THEN made \cup {upgrade_job_cluster_role_binding(a)}
                           ELSE made
    /\ targeted' = targeted \cup {Relies(ns, k)}
    /\ UNCHANGED <<args, prev, pc, result, pfMustFail, terminating, events,
                   ctask, dtask, purged, polls, latest, console, faults,
                   input, output>>

(* One of the five deletes of the rollback of the attempt in namespace ns, *)
(* which starts once its five creates have been answered Ok.               *)
DeleteIn(ns, k) ==
    /\ \/ ns \in console
       \/ \A j \in Kinds : Relies(ns, j) \in targeted
    /\ Relies(ns, k) \in targeted
    /\ LET id == DeleteIdentity(k, InNamespace(ns))
       IN  /\ present' = present \ {id}
           /\ made' = IF k = "ClusterRoleBinding"
                      THEN {b \in made : b.name # id.name}
                      ELSE made
    /\ targeted' = targeted \ {Relies(ns, k)}
    /\ console' = console \cup {ns}
    /\ UNCHANGED <<args, prev, pc, result, pfMustFail, terminating, events,
                   ctask, dtask, purged, polls, latest, faults, input, output>>

NextTwoNamespaces ==
    \/ \E ns \in TwoNamespaces, k \in Kinds : CreateIn(ns, k)
    \/ \E ns \in TwoNamespaces, k \in Kinds : DeleteIn(ns, k)

SpecTwoNamespaces == InitTwoNamespaces /\ [][NextTwoNamespaces]_vars

----------------------------------------------------------------------------
(* The control state of a process that has not started, for the            *)
(* specifications of single functions below.                               *)
NotStarted ==
    /\ args = DefaultArgs
    /\ made = {}
    /\ targeted = {}
    /\ prev = FALSE
    /\ pc = "idle"
    /\ result = "none"
    /\ pfMustFail = FALSE
    /\ present = {}
    /\ terminating = {}
    /\ events = {}
    /\ ctask = NoTasks
    /\ dtask = NoTasks
    /\ purged = FALSE
    /\ polls = 0
    /\ latest = NoEvent
    /\ console = {}
    /\ faults = 0

Return(value) ==
    /\ output' = <<value>>
    /\ UNCHANGED <<input, made, targeted>>
    /\ ControlUnchanged

----------------------------------------------------------------------------
(* get_latest_upgrade_event alone, on any list of Events list_events may   *)
(* return: any reason, action and note, event_time missing (0) or set.     *)

EventTimes == {0, 1, 2}

ListedEvents == {MkEvent(shape, t) : shape \in EventShapes, t \in EventTimes}

EventLists == UNION {[1..n -> ListedEvents] : n \in 0..MaxListLen}

InitEvents ==
    /\ input \in {<<list>> : list \in EventLists}
    /\ output = <<>>
    /\ NotStarted

SelectLatest ==
    /\ output = <<>>
    /\ Return(max_by_key_event_time(input[1]))

NextEvents == SelectLatest

SpecEvents == InitEvents /\ [][NextEvents]_vars

----------------------------------------------------------------------------
(* upgrade_preflight_check alone, over every input: an invocation starts   *)
(* and runs the preflight on it.                                           *)

InitPreflight ==
    /\ NotStarted
    /\ input \in {<<in>> : in \in PreflightInputs}
    /\ output = <<>>

RunPreflight ==
    /\ pc = "preflight"
    /\ output = <<>>
    /\ LET out == upgrade_preflight_check(input[1])
       IN  /\ output' = <<out>>
           /\ ExecuteUpgradeWith(MustFail(input[1]), out.res)
    /\ UNCHANGED input

NextPreflight ==
    \/ Start
    \/ RunPreflight

SpecPreflight == InitPreflight /\ [][NextPreflight]_vars

----------------------------------------------------------------------------
(* upgrade_path_validation.  A version tag is a string of tokens: "v",     *)
(* ".", "-", "+" and identifiers; None is <<>> and Some(tag) is <<tag>>.   *)
(* A semver::Version is its three numbers, its pre-release identifiers    *)
(* and its build identifiers.                                              *)

Digits == <<"0", "1", "2", "3", "4">>
IsNum(tok) == \E i \in 1..Len(Digits) : Digits[i] = tok
NumOf(tok) == (CHOOSE i \in 1..Len(Digits) : Digits[i] = tok) - 1

(* The identifiers that are not numbers, in the order of their bytes.      *)
Alnums == <<"alpha", "b1", "b2", "develop", "main", "rc">>
RankOf(tok) == CHOOSE i \in 1..Len(Alnums) : Alnums[i] = tok

Version(core, pre, build) == [core |-> core, pre |-> pre, build |-> build]

Sign(n) == IF n < 0 THEN -1 ELSE IF n > 0 THEN 1 ELSE 0

(* One identifier against another: numbers by value and below the others,  *)
(* the others by their bytes.                                              *)
CmpIdent(x, y) ==
    IF IsNum(x) /\ IsNum(y) THEN Sign(NumOf(x) - NumOf(y))
    ELSE IF IsNum(x) THEN -1
    ELSE IF IsNum(y) THEN 1
    ELSE Sign(RankOf(x) - RankOf(y))

RECURSIVE CmpIdents(_, _)
CmpIdents(p, q) ==
    IF p = <<>> /\ q = <<>> THEN 0
    ELSE IF p = <<>> THEN -1
    ELSE IF q = <<>> THEN 1
    ELSE LET c == CmpIdent(Head(p), Head(q))
         IN  IF c # 0 THEN c ELSE CmpIdents(Tail(p), Tail(q))

(* Ord of semver::Prerelease: no pre-release is above every pre-release.   *)
CmpPre(p, q) ==
    IF p = <<>> /\ q = <<>> THEN 0
    ELSE IF p = <<>> THEN 1
    ELSE IF q = <<>> THEN -1
    ELSE CmpIdents(p, q)

(* Ord of semver::BuildMetadata: no build metadata is below every build    *)
(* metadata.                                                               *)
CmpBuild(p, q) == CmpIdents(p, q)

CmpCore(a, b) ==
    IF a[1] # b[1] THEN Sign(a[1] - b[1])
    ELSE IF a[2] # b[2] THEN Sign(a[2] - b[2])
    ELSE Sign(a[3] - b[3])

(* Version::lt: the derived Ord of semver::Version compares major, minor,  *)
(* patch, pre and build, in that order.                                    *)
lt(a, b) ==
    LET c == CmpCore(a.core, b.core)
        d == CmpPre(a.pre, b.pre)
    IN  IF c # 0 THEN c = -1
        ELSE IF d # 0 THEN d = -1
        ELSE CmpBuild(a.build, b.build) = -1

(* The identifiers of a dot-separated list, <<"?">> if it is not one.      *)
Identifiers(t) ==
    IF /\ Len(t) % 2 = 1
       /\ \A i \in 1..Len(t) :
            IF i % 2 = 0 THEN t[i] = "."
            ELSE IsNum(t[i]) \/ \E j \in 1..Len(Alnums) : Alnums[j] = t[i]
    THEN [i \in 1..((Len(t) + 1) \div 2) |-> t[2 * i - 1]]
    ELSE <<"?">>

(* Version::parse: Ok(version) is <<version>>, Err is <<>>.                *)
Version_parse(t) ==
    IF \/ Len(t) < 5
       \/ ~IsNum(t[1]) \/ t[2] # "." \/ ~IsNum(t[3]) \/ t[4] # "." \/ ~IsNum(t[5])
    THEN <<>>
    ELSE LET rest == SubSeq(t, 6, Len(t))
             plus == {i \in 1..Len(rest) : rest[i] = "+"}
             cut == IF plus = {} THEN Len(rest) + 1
                    ELSE CHOOSE i \in plus : \A j \in plus : i <= j
             preStr == SubSeq(rest, 1, cut - 1)
             buildStr == SubSeq(rest, cut + 1, Len(rest))
             pre == IF preStr = <<>> THEN <<>>
                    ELSE IF preStr[1] = "-" THEN Identifiers(Tail(preStr))
                    ELSE <<"?">>
             build == IF plus = {} THEN <<>> ELSE Identifiers(buildStr)
         IN  IF pre = <<"?">> \/ build = <<"?">> THEN <<>>
             ELSE <<Version(<<NumOf(t[1]), NumOf(t[3]), NumOf(t[5])>>, pre, build)>>

(* pub const UPGRADE_JOB_IMAGE_TAG: &str = "develop";                      *)
UPGRADE_JOB_IMAGE_TAG == <<"develop">>

(* version_info!().version_tag.unwrap_or(UPGRADE_JOB_IMAGE_TAG)            *)
unwrap_or_image_tag(version_tag) ==
    [tag |-> IF version_tag = <<>> THEN UPGRADE_JOB_IMAGE_TAG ELSE version_tag[1]]

(* destination_version.contains("develop")                                 *)
contains_develop(t) == \E i \in 1..Len(t) : t[i] = "develop"

(* tag.strip_prefix('v').unwrap_or(&tag)                                   *)
strip_prefix_v(t) == IF t # <<>> /\ Head(t) = "v" THEN Tail(t) ELSE t

(* The Option<Version> of the binary's own tag.                            *)
self_version(version_tag) ==
    IF version_tag = <<>> \/ version_tag[1] = <<>> THEN <<>>
    ELSE Version_parse(strip_prefix_v(version_tag[1]))

(* upgrade_path_validation: the error it returns, or "ok".                 *)
upgrade_path_validation(allow_unstable, source_version, version_tag) ==
    LET sv == self_version(version_tag)
        self_is_stable == sv # <<>> /\ sv[1].pre = <<>>
    IN  IF contains_develop(get_destination_version_tag(unwrap_or_image_tag(version_tag)))
        THEN "destination version contains develop"
        ELSE IF ~allow_unstable /\ source_version.pre = <<>> /\ ~self_is_stable
        THEN "stable to unstable upgrade"
        ELSE IF sv # <<>> /\ lt(sv[1], source_version)
        THEN "higher to lower version upgrade"
        ELSE "ok"

(* The chart versions of the release to upgrade.                           *)
SourceVersions ==
    { Version(<<4, 2, 0>>, <<>>, <<>>),
      Version(<<4, 3, 0>>, <<>>, <<>>),
      Version(<<4, 3, 0>>, <<"rc", "1">>, <<>>),
      Version(<<4, 3, 0>>, <<"rc", "2">>, <<>>),
      Version(<<4, 3, 0>>, <<>>, <<"b1">>),
      Version(<<4, 3, 1>>, <<"alpha">>, <<>>),
      Version(<<4, 4, 0>>, <<>>, <<>>) }

(* The version tags a build of the plugin can carry.                       *)
VersionTags ==
    { <<>>,
      <<"develop">>,
      <<"main">>,
      <<"v", "4", ".", "3">>,
      <<"v", "4", ".", "3", ".", "0">>,
      <<"4", ".", "3", ".", "0">>,
      <<"v", "4", ".", "3", ".", "0", "-", "rc", ".", "1">>,
      <<"v", "4", ".", "3", ".", "0", "-", "develop">>,
      <<"v", "4", ".", "3", ".", "0", "+", "b2">>,
      <<"v", "4", ".", "2", ".", "1">>,
      <<"v", "4", ".", "4", ".", "0", "-", "alpha", ".", "2">> }

PathInputs ==
    [allow_unstable : BOOLEAN, source_version : SourceVersions,
     version_tag : {<<>>} \cup {<<t>> : t \in VersionTags}]

InitPath ==
    /\ NotStarted
    /\ input \in {<<in>> : in \in PathInputs}
    /\ output = <<>>

ValidatePath ==
    /\ output = <<>>
    /\ Return(upgrade_path_validation(input[1].allow_unstable, input[1].source_version,
                                      input[1].version_tag))

NextPath == ValidatePath

SpecPath == InitPath /\ [][NextPath]_vars

----------------------------------------------------------------------------
(* single_volume_replica_validation.  The cluster has the volumes          *)
(* 1..Len(vols), vols[i] being the num_replicas of volume i; the REST API  *)
(* serves them in pages of `size`, and its request number failAt fails     *)
(* (0: none does).  Option values: None is <<>>, Some(x) is <<x>>.         *)

(* volume.spec.uuid.to_string(): the string of the uuid of volume i.       *)
Uuids == <<"u1", "u2", "u3", "u4", "u5">>
uuid_to_string(i) == Uuids[i]

(* A uid of a PersistentVolumeClaim that is no volume's uuid.              *)
OtherUid == "u0"

Min(a, b) == IF a < b THEN a ELSE b

(* client.volumes_api().get_volumes(max_entries, None, starting_token):    *)
(* Err is <<>>, Ok(body) is <<body>>.                                      *)
get_volumes(in, request, starting_token) ==
    IF request = in.failAt THEN <<>>
    ELSE LET n == Len(in.vols)
             last == Min(starting_token + in.size, n)
         IN  <<[entries |-> [i \in 1..(last - starting_token) |->
                               [uuid |-> starting_token + i,
                                num_replicas |-> in.vols[starting_token + i]]],
                next_token |-> IF last < n THEN <<last>> ELSE <<>>]>>

(* .filter(|volume| volume.spec.num_replicas == 1)                         *)
(* .map(|volume| volume.spec.uuid.to_string())                             *)
RECURSIVE single_rep_vol_ids(_)
single_rep_vol_ids(entries) ==
    IF entries = <<>> THEN <<>>
    ELSE (IF Head(entries).num_replicas = 1
          THEN <<uuid_to_string(Head(entries).uuid)>> ELSE <<>>)
         \o single_rep_vol_ids(Tail(entries))

(* The loop with `volumes = single_rep_vol_ids` for `volumes.extend(..)`.  *)
RECURSIVE CollectVolumes_keeping_last_page(_, _, _, _)
CollectVolumes_keeping_last_page(in, request, starting_token, volumes) ==
    IF starting_token = <<>> THEN [ok |-> TRUE, volumes |-> volumes]
    ELSE LET vols == get_volumes(in, request, starting_token[1])
         IN  IF vols = <<>> THEN [ok |-> FALSE, volumes |-> <<>>]
             ELSE CollectVolumes_keeping_last_page(in, request + 1, vols[1].next_token,
                                                   single_rep_vol_ids(vols[1].entries))

(* while starting_token.is_some() { .. }: one request per page, the `?` on *)
(* a failed request, the ids of the page appended.                         *)
RECURSIVE CollectVolumes(_, _, _, _)
CollectVolumes(in, request, starting_token, volumes) ==
    IF starting_token = <<>> THEN [ok |-> TRUE, volumes |-> volumes]
    ELSE LET vols == get_volumes(in, request, starting_token[1])
         IN  IF vols = <<>> THEN [ok |-> FALSE, volumes |-> <<>>]
             ELSE CollectVolumes(in, request + 1, vols[1].next_token,
                                 volumes \o single_rep_vol_ids(vols[1].entries))

(* The loop over pvc_list of get_pvc_from_uuid.                            *)
RECURSIVE single_replica_volumes_pvc(_, _)
single_replica_volumes_pvc(pvc_list, uuid_list) ==
    IF pvc_list = <<>> THEN <<>>
    ELSE LET pvc == Head(pvc_list)
         IN  (IF pvc.uid # <<>> /\ pvc.uid[1] \in uuid_list /\ pvc.name # <<>>
              THEN <<pvc.name[1]>> ELSE <<>>)
             \o single_replica_volumes_pvc(Tail(pvc_list), uuid_list)

(* get_pvc_from_uuid: Err is <<>>, Ok(names) is <<names>>.                 *)
get_pvc_from_uuid(in, uuid_list) ==
    IF ~in.pvcOk THEN <<>>
    ELSE <<single_replica_volumes_pvc(in.pvcs, uuid_list)>>

HashSet_from_iter(seq) == {seq[i] : i \in 1..Len(seq)}

(* single_volume_replica_validation: what it returns (res) and the PVC     *)
(* names of the message it prints (listed).                                *)
single_volume_replica_validation(in) ==
    LET got == CollectVolumes(in, 1, <<0>>, <<>>)
    IN  IF ~got.ok
        THEN [res |-> "Failed to list Mayastor volumes", listed |-> <<>>]
        ELSE IF got.volumes = <<>>
        THEN [res |-> "ok", listed |-> <<>>]
        ELSE LET pvc_list == get_pvc_from_uuid(in, HashSet_from_iter(got.volumes))
             IN  IF pvc_list = <<>>
                 THEN [res |-> "Failed to list PVCs", listed |-> <<>>]
                 ELSE [res |-> "Single replica volume present in cluster",
                       listed |-> pvc_list[1]]

(* The uid a PersistentVolumeClaim can carry: none, a volume's, another.   *)
PvcUids == {<<>>, <<OtherUid>>} \cup {<<uuid_to_string(i)>> : i \in 1..MaxVolumes}

FirstPvcs == [uid : PvcUids, name : {<<"data-vol-0">>}]
SecondPvcs == [uid : PvcUids, name : {<<>>, <<"logs-0">>}]

PvcLists ==
    {<<>>} \cup {<<a>> : a \in FirstPvcs} \cup {<<b>> : b \in SecondPvcs}
           \cup {<<a, b>> : a \in FirstPvcs, b \in SecondPvcs}

SingleInputs ==
    [vols : UNION {[1..n -> {1, 2, 3}] : n \in 0..MaxVolumes},
     size : {1, 2},
     failAt : {0, 1, 2},
     pvcs : PvcLists,
     pvcOk : BOOLEAN]

InitSingle ==
    /\ NotStarted
    /\ input \in {<<in>> : in \in SingleInputs}
    /\ output = <<>>

ValidateSingle ==
    /\ output = <<>>
    /\ Return(single_volume_replica_validation(input[1]))

NextSingle == ValidateSingle

SpecSingle == InitSingle /\ [][NextSingle]_vars

----------------------------------------------------------------------------
(* already_cordoned_nodes_validation.  Node i of the list has the id       *)
(* NodeIds[i]; its spec is None (<<>>) or Some(spec), and the              *)
(* cordondrainstate of a spec is None or Some(variant of CordonDrainState).*)

NodeIds == <<"node-1", "node-2", "node-3", "node-4">>

CordonDrainState == {"cordonedstate", "drainingstate", "drainedstate"}

NodeSpecs == {<<>>} \cup {<<[cordondrainstate |-> st]>> :
                              st \in {<<>>} \cup {<<v>> : v \in CordonDrainState}}

CordonInputs ==
    [specs : UNION {[1..n -> NodeSpecs] : n \in 0..MaxNodes}, listOk : BOOLEAN]

(* The loop over nodelist: `?` on a node without spec, push(node.id) for   *)
(* Some(CordonDrainState::cordonedstate(_)).  Err is <<>>, the list that   *)
(* is left at the end of the loop is <<list>>.                             *)
RECURSIVE cordoned_nodes_list(_, _, _)
cordoned_nodes_list(specs, i, list) ==
    IF i > Len(specs) THEN <<list>>
    ELSE IF specs[i] = <<>> THEN <<>>
    ELSE cordoned_nodes_list(specs, i + 1,
            IF specs[i][1].cordondrainstate = <<"cordonedstate">>
            THEN Append(list, NodeIds[i]) ELSE list)

(* already_cordoned_nodes_validation: what it returns (res) and the node   *)
(* ids of the message it prints (listed).                                  *)
already_cordoned_nodes_validation(in) ==
    IF ~in.listOk THEN [res |-> "Failed to list Mayastor Nodes", listed |-> <<>>]
    ELSE LET got == cordoned_nodes_list(in.specs, 1, <<>>)
         IN  IF got = <<>> THEN [res |-> "Node spec not present", listed |-> <<>>]
             ELSE IF got[1] # <<>>
             THEN [res |-> "Nodes are in cordoned state", listed |-> got[1]]
             ELSE [res |-> "ok", listed |-> <<>>]

InitCordon ==
    /\ NotStarted
    /\ input \in {<<in>> : in \in CordonInputs}
    /\ output = <<>>

ValidateCordon ==
    /\ output = <<>>
    /\ Return(already_cordoned_nodes_validation(input[1]))

NextCordon == ValidateCordon

SpecCordon == InitCordon /\ [][NextCordon]_vars

----------------------------------------------------------------------------
(* rebuild_in_progress_validation.  vols[i] is the state.target of volume  *)
(* i: None (<<>>) or Some(target), a target's children being the           *)
(* rebuild_progress of each child, None or Some(percent).                  *)

RebuildProgress == {<<>>, <<40>>}

Targets ==
    {<<>>} \cup {<<[children |-> c]>> :
                    c \in UNION {[1..n -> RebuildProgress] : n \in 0..2}}

RebuildInputs ==
    [vols : UNION {[1..n -> Targets] : n \in 0..MaxVolumes},
     size : {1, 2},
     failAt : {0, 1, 2}]

(* get_volumes as rebuild_in_progress reads its answer: the state.target   *)
(* of each entry and the next_token.  Err is <<>>, Ok(body) is <<body>>.   *)
get_volumes_state(in, request, starting_token) ==
    IF request = in.failAt THEN <<>>
    ELSE LET n == Len(in.vols)
             last == Min(starting_token + in.size, n)
         IN  <<[entries |-> [i \in 1..(last - starting_token) |->
                               [target |-> in.vols[starting_token + i]]],
                next_token |-> IF last < n THEN <<last>> ELSE <<>>]>>

(* The test with `.all(..)` for `.any(..)`.                                *)
child_rebuilding_all(volume) ==
    /\ volume.target # <<>>
    /\ \A j \in 1..Len(volume.target[1].children) : volume.target[1].children[j] # <<>>

(* if let Some(target) = &volume.state.target {                            *)
(*     if target.children.iter().any(|child| child.rebuild_progress.is_some()) *)
child_rebuilding(volume) ==
    /\ volume.target # <<>>
    /\ \E j \in 1..Len(volume.target[1].children) : volume.target[1].children[j] # <<>>

(* rebuild_in_progress: Ok(true), Ok(false) or the Err of a failed         *)
(* request, with the number of requests it has made.                       *)
RECURSIVE rebuild_in_progress(_, _, _)
rebuild_in_progress(in, request, starting_token) ==
    IF starting_token = <<>> THEN [res |-> "false", requests |-> request - 1]
    ELSE LET vols == get_volumes_state(in, request, starting_token[1])
         IN  IF vols = <<>>
             THEN [res |-> "Failed to list Mayastor volumes", requests |-> request]
             ELSE IF \E i \in 1..Len(vols[1].entries) : child_rebuilding(vols[1].entries[i])
             THEN [res |-> "true", requests |-> request]
             ELSE rebuild_in_progress(in, request + 1, vols[1].next_token)

(* rebuild_in_progress_validation: the `?`, then Err for Ok(true).         *)
rebuild_in_progress_validation(in) ==
    LET r == rebuild_in_progress(in, 1, <<0>>)
    IN  IF r.res = "true"
        THEN [res |-> "Cluster is rebuilding replica of some volumes.", requests |-> r.requests]
        ELSE IF r.res = "false" THEN [res |-> "ok", requests |-> r.requests]
        ELSE r

InitRebuild ==
    /\ NotStarted
    /\ input \in {<<in>> : in \in RebuildInputs}
    /\ output = <<>>

ValidateRebuild ==
    /\ output = <<>>
    /\ Return(rebuild_in_progress_validation(input[1]))

NextRebuild == ValidateRebuild

SpecRebuild == InitRebuild /\ [][NextRebuild]_vars

----------------------------------------------------------------------------
(* helm_release_name.  objects is what the list of the deployed release    *)
(* storage objects (Secrets or ConfigMaps, by the driver) returns: object  *)
(* i has the label name = ReleaseNames[i] or lacks it, and its data is     *)
(* undecodable ("bad"), decodes to a release without chart ("none"), or to *)
(* a release of the chart of that name.                                    *)

ReleaseNames == <<"rel-1", "rel-2", "rel-3", "rel-4">>

ChartNames == {"openebs", "mayastor"}

StorageDrivers == {"", "secret", "secrets", "configmap", "configmaps", "memory"}

StorageObjects(i) ==
    [name : {<<>>, <<ReleaseNames[i]>>}, chart : {"bad", "none"} \cup ChartNames]

ReleaseInputs ==
    [release_name : {<<>>, <<"given">>},
     driver : StorageDrivers,
     listOk : BOOLEAN,
     objects : UNION {{o \in [1..n -> UNION {StorageObjects(i) : i \in 1..n}] :
                          \A i \in 1..n : o[i] \in StorageObjects(i)} : n \in 0..MaxObjects}]

ReleaseOk(name) == [res |-> "ok", name |-> name]
ReleaseErr(why) == [res |-> why, name |-> ""]

(* The loop with the second candidate taking the place of the first.       *)
RECURSIVE openebs_chart_secret_last_wins(_, _, _)
openebs_chart_secret_last_wins(objects, i, found) ==
    IF i > Len(objects)
    THEN IF found = <<>> THEN ReleaseErr("there aren't any 'openebs' charts installed")
         ELSE ReleaseOk(found[1])
    ELSE IF objects[i].name = <<>> THEN ReleaseErr("no label 'name'")
    ELSE IF objects[i].chart = "bad" THEN ReleaseErr("undecodable release data")
    ELSE IF objects[i].chart = "none" THEN ReleaseErr("Missing 'chart' value in release data")
    ELSE IF objects[i].chart = "openebs"
    THEN openebs_chart_secret_last_wins(objects, i + 1, objects[i].name)
    ELSE openebs_chart_secret_last_wins(objects, i + 1, found)

(* for secret in secrets.into_iter() { .. } and the ok_or after it: the    *)
(* label, the decoding and the chart of each object (`?` on each), the     *)
(* error on a second "openebs" chart, the error on none.                   *)
RECURSIVE openebs_chart_secret(_, _, _)
openebs_chart_secret(objects, i, found) ==
    IF i > Len(objects)
    THEN IF found = <<>> THEN ReleaseErr("there aren't any 'openebs' charts installed")
         ELSE ReleaseOk(found[1])
    ELSE IF objects[i].name = <<>> THEN ReleaseErr("no label 'name'")
    ELSE IF objects[i].chart = "bad" THEN ReleaseErr("undecodable release data")
    ELSE IF objects[i].chart = "none" THEN ReleaseErr("Missing 'chart' value in release data")
    ELSE IF objects[i].chart = "openebs"
    THEN IF found # <<>> THEN ReleaseErr("there are too many 'openebs' charts installed")
         ELSE openebs_chart_secret(objects, i + 1, objects[i].name)
    ELSE openebs_chart_secret(objects, i + 1, found)

helm_release_name(in) ==
    IF in.driver \notin {"", "secret", "secrets", "configmap", "configmaps"}
    THEN ReleaseErr("storage driver for helm is not supported")
    ELSE IF ~in.listOk THEN ReleaseErr("list failed")
    ELSE openebs_chart_secret(in.objects, 1, <<>>)

(* match release_name { Some(name) => name, None => helm_release_name(..).await? } *)
ResolveReleaseName(in) ==
    IF in.release_name # <<>> THEN ReleaseOk(in.release_name[1])
    ELSE helm_release_name(in)

InitRelease ==
    /\ NotStarted
    /\ input \in {<<in>> : in \in ReleaseInputs}
    /\ output = <<>>

ResolveRelease ==
    /\ output = <<>>
    /\ Return(ResolveReleaseName(input[1]))

NextRelease == ResolveRelease

SpecRelease == InitRelease /\ [][NextRelease]_vars

----------------------------------------------------------------------------
(* HelmRelease and mayastor_is_enabled.  A JSON object is a record of its  *)
(* keys, each absent (<<>>) or present (<<value>>); the release document   *)
(* has `config` and `chart.values`, each with the keys `engines` (down to  *)
(* engines.replicated.mayastor.enabled) and `mayastor` (mayastor.enabled). *)

EnabledJson == {<<>>} \cup {<<[enabled |-> e]>> : e \in {<<>>, <<TRUE>>, <<FALSE>>}}
ReplicatedJson == {<<>>} \cup {<<[mayastor |-> m]>> : m \in EnabledJson}
EnginesJson == {<<>>} \cup {<<[replicated |-> r]>> : r \in ReplicatedJson}
ValuesJson == {<<>>} \cup {<<v>> : v \in [engines : EnginesJson, mayastor : EnabledJson]}

ReleaseDocs == [config : ValuesJson, values : ValuesJson]

(* serde_json::from_slice::<HelmRelease>: Err is <<>>.  chart.values is a  *)
(* required key; HelmValues.engines is an Option, but Engines.replicated,  *)
(* ReplicatedEngines.mayastor and EngineEnabled.enabled are required;      *)
(* every key under config is an Option.                                    *)
new_from_release_data_buf(doc) ==
    IF doc.values = <<>> THEN <<>>
    ELSE LET engines == doc.values[1].engines
         IN  IF /\ engines # <<>>
                /\ \/ engines[1].replicated = <<>>
                   \/ engines[1].replicated[1].mayastor = <<>>
                   \/ engines[1].replicated[1].mayastor[1].enabled = <<>>
             THEN <<>>
             ELSE <<[config |-> doc.config, chart |-> [values |-> doc.values[1]]]>>

(* Option::and_then over the keys of a path, from an Option.               *)
RECURSIVE and_then(_, _)
and_then(opt, keys) ==
    IF keys = <<>> \/ opt = <<>> THEN opt
    ELSE and_then(opt[1][Head(keys)], Tail(keys))

unwrap_or(opt, default) == IF opt = <<>> THEN default ELSE opt[1]

(* HelmRelease::mayastor_is_enabled                                        *)
mayastor_is_enabled(release) ==
    unwrap_or(and_then(release.config, <<"engines", "replicated", "mayastor", "enabled">>),
      unwrap_or(and_then(release.config, <<"mayastor", "enabled">>),
        unwrap_or(IF release.chart.values.engines = <<>> THEN <<>>
                  ELSE <<release.chart.values.engines[1].replicated[1].mayastor[1].enabled[1]>>,
          unwrap_or(and_then(release.chart.values.mayastor, <<"enabled">>),
                    FALSE))))

(* HelmRelease::new_from_release_data_buf, then mayastor_is_enabled.       *)
ResolveEngineFlag(doc) ==
    LET release == new_from_release_data_buf(doc)
    IN  IF release = <<>> THEN [res |-> "decode error", enabled |-> FALSE]
        ELSE [res |-> "ok", enabled |-> mayastor_is_enabled(release[1])]

InitFlag ==
    /\ NotStarted
    /\ input \in {<<doc>> : doc \in ReleaseDocs}
    /\ output = <<>>

ResolveFlag ==
    /\ output = <<>>
    /\ Return(ResolveEngineFlag(input[1]))

NextFlag == ResolveFlag

SpecFlag == InitFlag /\ [][NextFlag]_vars

(***************************************************************************)
(* openebs-upgrade: the values file that overrides select helm options.    *)
(* safe_crd_install switches a CRD group's helm toggle off when the        *)
(* cluster already has one of the group's CRDs.                            *)
(***************************************************************************)
MaxCrds == 3

(* The HashMap built at the top of safe_crd_install.                       *)
crds_to_helm_toggle ==
    { [crd_set |-> { "volumesnapshotclasses.snapshot.storage.k8s.io",
                     "volumesnapshotcontents.snapshot.storage.k8s.io",
                     "volumesnapshots.snapshot.storage.k8s.io" },
       helm_toggle |-> ".openebs-crds.csi.volumeSnapshots.enabled"],
      [crd_set |-> { "jaegers.jaegertracing.io" },
       helm_toggle |-> ".mayastor.crds.jaeger.enabled"],
      [crd_set |-> { "zfsvolumes.zfs.openebs.io",
                     "zfsnodes.zfs.openebs.io",
                     "zfsbackups.zfs.openebs.io",
                     "zfsrestores.zfs.openebs.io",
                     "zfssnapshots.zfs.openebs.io" },
       helm_toggle |-> ".zfs-localpv.crds.zfsLocalPv.enabled"],
      [crd_set |-> { "lvmvolumes.zfs.openebs.io",
                     "lvmnodes.zfs.openebs.io",
                     "lvmsnapshots.zfs.openebs.io" },
       helm_toggle |-> ".lvm-localpv.crds.lvmLocalPv.enabled"] }

(* into_iter() of a HashMap visits the entries in an unspecified order.    *)
IterationOrders ==
    { order \in [1..Cardinality(crds_to_helm_toggle) -> crds_to_helm_toggle] :
        \A i, j \in DOMAIN order : i # j => order[i] # order[j] }

(* The names list_crds_metadata can return: the declared ones and two that *)
(* belong to no group (one of them the real LVM CRD name).                 *)
CrdNames ==
    UNION {e.crd_set : e \in crds_to_helm_toggle}
        \cup {"certificates.cert-manager.io", "lvmvolumes.local.openebs.io"}

CrdInputs ==
    [listOk : BOOLEAN, yqOk : BOOLEAN,
     all_crd_names : {names \in SUBSET CrdNames : Cardinality(names) <= MaxCrds}]

crd_set_exists_all(all_crd_names, crd_set) == crd_set \subseteq all_crd_names

(* all_crd_names.iter().any(|name| crd_set.contains(&name.as_str()))       *)
crd_set_exists(all_crd_names, crd_set) ==
    \E name \in all_crd_names : name \in crd_set

(* safe_crd_install: `writes` are the set_literal_value(toggle, false)     *)
(* calls that succeeded, in the order they were made.                      *)
safe_crd_install(in, order) ==
    IF ~in.listOk THEN [res |-> "err", listed |-> TRUE, writes |-> <<>>]
    ELSE
        LET Exists(e) == crd_set_exists(in.all_crd_names, e.crd_set)
            hits == SelectSeq(order, Exists)
        IN  IF hits # <<>> /\ ~in.yqOk
            THEN [res |-> "err", listed |-> TRUE, writes |-> <<>>]
            ELSE [res |-> "ok", listed |-> TRUE,
                  writes |-> [i \in DOMAIN hits |-> hits[i].helm_toggle]]

InitCrd ==
    /\ NotStarted
    /\ input \in {<<in>> : in \in CrdInputs}
    /\ output = <<>>

InstallCrdToggles ==
    /\ output = <<>>
    /\ \E order \in IterationOrders :
            Return(safe_crd_install(input[1], order))

NextCrd == InstallCrdToggles

SpecCrd == InitCrd /\ [][NextCrd]_vars

(***************************************************************************)
(* generate_values_file: the temporary file is created in the chart        *)
(* directory, and is removed again when it is dropped on an error return.  *)
(***************************************************************************)
FOUR_DOT_O == Version(<<4, 0, 0>>, <<>>, <<>>)

ValuesVersions ==
    { Version(<<3, 5, 0>>, <<>>, <<>>),
      Version(<<4, 0, 0>>, <<"rc", "1">>, <<>>),
      Version(<<4, 0, 0>>, <<>>, <<>>),
      Version(<<4, 0, 0>>, <<>>, <<"b1">>),
      Version(<<4, 0, 1>>, <<>>, <<>>),
      Version(<<5, 0, 0>>, <<"alpha">>, <<>>) }

ValuesCrdNames ==
    { "jaegers.jaegertracing.io", "zfsnodes.zfs.openebs.io",
      "certificates.cert-manager.io" }

ValuesInputs ==
    [fileOk : BOOLEAN, source_version : ValuesVersions,
     target_version : ValuesVersions,
     crds : [listOk : BOOLEAN, yqOk : BOOLEAN,
             all_crd_names : SUBSET ValuesCrdNames]]

generate_values_file_unconditional(in, order) ==
    LET crd == safe_crd_install(in.crds, order)
    IN  [res |-> crd.res, created |-> TRUE, file |-> crd.res = "ok",
         listed |-> crd.listed, writes |-> crd.writes]

generate_values_file(in, order) ==
    IF ~in.fileOk
    THEN [res |-> "err", created |-> FALSE, file |-> FALSE,
          listed |-> FALSE, writes |-> <<>>]
    ELSE IF lt(in.source_version, FOUR_DOT_O) /\ ~lt(in.target_version, FOUR_DOT_O)
    THEN LET crd == safe_crd_install(in.crds, order)
         IN  [res |-> crd.res, created |-> TRUE, file |-> crd.res = "ok",
              listed |-> crd.listed, writes |-> crd.writes]
    ELSE [res |-> "ok", created |-> TRUE, file |-> TRUE,
          listed |-> FALSE, writes |-> <<>>]

InitValues ==
    /\ NotStarted
    /\ input \in {<<in>> : in \in ValuesInputs}
    /\ output = <<>>

GenerateValuesFile ==
    /\ output = <<>>
    /\ \E order \in IterationOrders :
            Return(generate_values_file(input[1], order))

NextValues == GenerateValuesFile

SpecValues == InitValues /\ [][NextValues]_vars

(***************************************************************************)
(* The versions from which an upgrade requires that partial rebuild be     *)
(* disabled.  The bound pair is the program's; the predicate over it is    *)
(* not among the sources and follows its specification: the lower bound    *)
(* is inclusive, the upper one exclusive, in the order of Version.         *)
(***************************************************************************)
PARTIAL_REBUILD_DISABLE_EXTENTS_upto_3_9 ==
    <<Version(<<3, 7, 0>>, <<>>, <<>>), Version(<<3, 9, 0>>, <<>>, <<>>)>>

PARTIAL_REBUILD_DISABLE_EXTENTS ==
    <<Version(<<3, 7, 0>>, <<>>, <<>>), Version(<<3, 10, 0>>, <<>>, <<>>)>>

requires_partial_rebuild_disable(source_version) ==
    /\ ~lt(source_version, PARTIAL_REBUILD_DISABLE_EXTENTS[1])
    /\ lt(source_version, PARTIAL_REBUILD_DISABLE_EXTENTS[2])

RebuildVersions ==
    { Version(core, pre, build) :
        core \in ({3} \X {6, 7, 8, 9, 10, 11} \X {0, 1})
                    \cup {<<2, 8, 0>>, <<4, 0, 0>>},
        pre \in {<<>>, <<"alpha">>, <<"rc", "1">>},
        build \in {<<>>, <<"b1">>} }

InitPartialRebuild ==
    /\ NotStarted
    /\ input \in {<<v>> : v \in RebuildVersions}
    /\ output = <<>>

CheckPartialRebuild ==
    /\ output = <<>>
    /\ Return(requires_partial_rebuild_disable(input[1]))

NextPartialRebuild == CheckPartialRebuild

SpecPartialRebuild == InitPartialRebuild /\ [][NextPartialRebuild]_vars

(***************************************************************************)
(* ImageProperties::new_from_helm_release: the registry of the upgrade     *)
(* job's image.  A string is the sequence of its pieces, "/" being a piece *)
(* of its own, so that contains() and split('/') are computed.  The pull   *)
(* secrets and the pull policy are copied from the Pod unchanged and are   *)
(* left out.                                                               *)
(***************************************************************************)
MaxPods == 2

ImageReleases == { <<"rel">>, <<"my", "-", "localpv-provisioner">> }

contains(string, piece) == \E i \in DOMAIN string : string[i] = piece

hostpath_localpv_image_name(release_name) ==
    IF contains(release_name, "localpv-provisioner")
    THEN <<"localpv-provisioner">>
    ELSE release_name \o <<"-", "localpv-provisioner">>

openebs_containers(release_name) ==
    { <<"openebs", "-", "localpv-provisioner">>,
      <<"api-rest">>,
      <<"openebs-zfs-plugin">>,
      <<"openebs-lvm-plugin">>,
      hostpath_localpv_image_name(release_name) }

RECURSIVE split(_, _)
split(string, separator) ==
    IF ~contains(string, separator) THEN <<string>>
    ELSE LET i == CHOOSE k \in DOMAIN string :
                    /\ string[k] = separator
                    /\ \A j \in 1..(k - 1) : string[j] # separator
         IN  <<SubSeq(string, 1, i - 1)>>
                \o split(SubSeq(string, i + 1, Len(string)), separator)

(* The image references a container can carry, None included.              *)
Images ==
    { <<>>,
      << <<>> >>,
      << <<"api-rest:v1">> >>,
      << <<"openebs", "/", "api-rest:v1">> >>,
      << <<"quay.io", "/", "openebs", "/", "api-rest:v1">> >>,
      << <<"/", "openebs", "/", "api-rest:v1">> >>,
      << <<"quay.io", "/", "mirror", "/", "openebs", "/", "api-rest:v1">> >> }

Sidecar ==
    [name |-> <<"csi-provisioner">>,
     image |-> << <<"registry.k8s.io", "/", "sig-storage", "/", "csi-provisioner:v3">> >>]

(* The Pods list_pods can return: one without a spec, one with a sidecar   *)
(* only, and Pods that hold a known container before or after a sidecar.   *)
PodShapes ==
    { [spec |-> <<>>], [spec |-> << <<Sidecar>> >>] }
    \cup { [spec |-> << <<Sidecar, [name |-> <<"api-rest">>, image |-> img]>> >>]
             : img \in Images }
    \cup { [spec |-> << <<[name |-> <<"rel", "-", "localpv-provisioner">>,
                           image |-> img],
                          [name |-> <<"openebs-zfs-plugin">>,
                           image |-> Sidecar.image]>> >>]
             : img \in Images }

ImageInputs ==
    [release_name : ImageReleases,
     registry : {<<>>, << <<"ghcr.io">> >>},
     listOk : BOOLEAN,
     pods : UNION {[1..n -> PodShapes] : n \in 0..MaxPods}]

registry_of_image_at_least_three(img) ==
    LET parts == split(img, "/")
    IN  IF Len(parts) >= 3 THEN <<parts[1]>> ELSE <<>>

(* |img| { let parts = img.split('/').collect();                           *)
(*         (parts.len() == 3).then(|| parts[0].to_owned()) }               *)
registry_of_image(img) ==
    LET parts == split(img, "/")
    IN  IF Len(parts) = 3 THEN <<parts[1]>> ELSE <<>>

(* The first Pod with a spec that has a container of a known name, and in  *)
(* it the first container of a known name.                                 *)
find_openebs_container(in) ==
    LET known == openebs_containers(in.release_name)
        Has(pod) == /\ pod.spec # <<>>
                    /\ \E i \in DOMAIN pod.spec[1] : pod.spec[1][i].name \in known
        found == SelectSeq(in.pods, Has)
    IN  IF found = <<>> THEN <<>>
        ELSE LET containers == found[1].spec[1]
                 Known(c) == c.name \in known
             IN  <<SelectSeq(containers, Known)[1]>>

new_from_helm_release(in) ==
    IF ~in.listOk THEN [res |-> "err", registry |-> <<>>]
    ELSE
        LET openebs_container == find_openebs_container(in)
        IN  IF openebs_container = <<>> THEN [res |-> "err", registry |-> <<>>]
            ELSE
                LET image   == openebs_container[1].image
                    derived == IF image = <<>> THEN <<>>
                               ELSE registry_of_image(image[1])
                    chosen  == IF in.registry # <<>> THEN in.registry ELSE derived
                IN  [res |-> "ok",
                     registry |-> IF chosen # <<>> THEN chosen[1]
                                  ELSE <<"docker.io">>]

InitImage ==
    /\ NotStarted
    /\ input \in {<<in>> : in \in ImageInputs}
    /\ output = <<>>

ResolveImage ==
    /\ output = <<>>
    /\ Return(new_from_helm_release(input[1]))

NextImage == ResolveImage

SpecImage == InitImage /\ [][NextImage]_vars

(***************************************************************************)
(* get_upgrade_status: the `status` subcommand.  The cluster's Events      *)
(* carry the object they regard; a field selector is the pair it asks for  *)
(* (regarding.kind, regarding.name).                                       *)
(***************************************************************************)
MaxStatusEvents == 2

StatusReleases == {<<"openebs">>, <<"my", "-", "upgrade">>}

WithRelease(a, release_name) ==
    [release |-> release_name, ns |-> a.ns, tag |-> a.tag]

(* apply_upgrade's upgrade_events_field_selector.                          *)
upgrade_events_field_selector(a) ==
    [kind |-> "Job", name |-> upgrade_name_concat(a, <<"upgrade">>)]

events_field_selector_of_release_only(a) ==
    [kind |-> "Job", name |-> a.release \o <<"-">> \o <<"upgrade">>]

(* get_upgrade_status's events_field_selector.                             *)
events_field_selector(a) ==
    [kind |-> "Job", name |-> upgrade_name_concat(a, <<"upgrade">>)]

(* The notes an Event can carry: none, or a JSON object with or without   *)
(* each of the keys of an UpgradeEvent.                                    *)
StatusNotes ==
    { <<>>,
      <<[fromVersion |-> <<"4.2.0">>, toVersion |-> <<"4.3.0">>, message |-> <<>>]>>,
      <<[fromVersion |-> <<"4.2.0">>, toVersion |-> <<"4.3.0">>,
         message |-> <<"Upgrading">>]>> }

ForeignNote ==
    <<[fromVersion |-> <<"3.9.0">>, toVersion |-> <<"4.0.0">>,
       message |-> <<"Foreign">>]>>

(* serde_json::from_str::<UpgradeEvent>: the three keys are required.      *)
UpgradeEvent_from_str(data) ==
    IF data.fromVersion = <<>> \/ data.toVersion = <<>> \/ data.message = <<>>
    THEN <<>>
    ELSE <<[from_version |-> data.fromVersion[1], to_version |-> data.toVersion[1],
            message |-> data.message[1]]>>

StatusEvent(regarding, reason, time, note) ==
    [regarding |-> regarding, reason |-> reason, time |-> time, note |-> note]

(* The Events of the namespace: those of this release's upgrade Job, one   *)
(* of a Pod of the same name and one of another release's upgrade Job.     *)
ClusterEvents(a) ==
    { StatusEvent(upgrade_events_field_selector(a), reason, time, note) :
        reason \in {"OpenebsUpgrade", "Other"}, time \in {1, 2},
        note \in StatusNotes }
    \cup { StatusEvent([kind |-> "Pod", name |-> upgrade_name_concat(a, <<"upgrade">>)],
                       "OpenebsUpgrade", 2, ForeignNote),
           StatusEvent(upgrade_events_field_selector(
                            WithRelease(a, <<"my", "-", "upgrade">>)),
                       "OpenebsUpgrade", 2, ForeignNote) }

(* list_events with a field selector.  In StatusInputs, `helm` is what     *)
(* helm_release_name returns: a release name, or none for its errors.      *)
list_events(evs, selector) == {e \in evs : e.regarding = selector}

StatusInputs ==
    [release_name : {<<>>} \cup {<<r>> : r \in StatusReleases},
     helm : {<<>>} \cup {<<r>> : r \in StatusReleases},
     listOk : BOOLEAN]

StatusErr(why) == [res |-> why, selector |-> <<>>, event |-> <<>>]

(* The three println! of get_upgrade_status.                               *)
StatusLines(e) ==
    { [line |-> "Upgrade From", text |-> e.from_version],
      [line |-> "Upgrade To", text |-> e.to_version],
      [line |-> "Upgrade Status", text |-> e.message] }

InitStatus ==
    /\ args \in {a \in [release : {<<"openebs">>}, ns : {"openebs"}, tag : Tags] : TRUE}
    /\ events \in {evs \in SUBSET ClusterEvents(args) :
                        Cardinality(evs) <= MaxStatusEvents}
    /\ present = Kinds
    /\ input \in {<<in>> : in \in StatusInputs}
    /\ output = <<>>
    /\ made = {}
    /\ targeted = {}
    /\ prev = FALSE
    /\ pc = "idle"
    /\ result = "none"
    /\ pfMustFail = FALSE
    /\ terminating = {}
    /\ ctask = NoTasks
    /\ dtask = NoTasks
    /\ purged = FALSE
    /\ polls = 0
    /\ latest = NoEvent
    /\ console = {}
    /\ faults = 0

StatusDone(value, lines) ==
    /\ output' = <<value>>
    /\ console' = console \cup lines
    /\ UNCHANGED <<args, prev, pc, result, pfMustFail, present, terminating,
                   events, ctask, dtask, purged, polls, latest, faults, made,
                   targeted, input>>

get_upgrade_status ==
    /\ output = <<>>
    /\ LET in      == input[1]
           release == IF in.release_name # <<>> THEN in.release_name ELSE in.helm
       IN  IF release = <<>> THEN StatusDone(StatusErr("no release name"), {})
           ELSE
             LET selector == events_field_selector(WithRelease(args, release[1]))
             IN  IF ~in.listOk
                 THEN StatusDone([res |-> "list failed", selector |-> <<selector>>,
                                  event |-> <<>>], {})
                 ELSE
                   \E l \in ListsOf(list_events(events, selector)) :
                     LET event == max_by_key_event_time(l)
                     IN  IF event = NoEvent
                         THEN StatusDone([res |-> "No upgrade event present",
                                          selector |-> <<selector>>,
                                          event |-> <<>>], {})
                         ELSE IF event.note = <<>>
                         THEN StatusDone([res |-> "No message present in upgrade event",
                                          selector |-> <<selector>>,
                                          event |-> <<event>>], {})
                         ELSE IF UpgradeEvent_from_str(event.note[1]) = <<>>
                         THEN StatusDone([res |-> "Failed to deserialize upgrade event",
                                          selector |-> <<selector>>,
                                          event |-> <<event>>], {})
                         ELSE StatusDone([res |-> "ok", selector |-> <<selector>>,
                                          event |-> <<event>>],
                                         StatusLines(
                                            UpgradeEvent_from_str(event.note[1])[1]))

NextStatus == get_upgrade_status

SpecStatus == InitStatus /\ [][NextStatus]_vars

(***************************************************************************)
(* config_map_data and job_set_file_args: the --set-file arguments become  *)
(* the ConfigMap's data and the Job's --helm-args-set-file argument.       *)
(* Strings are sequences of pieces, "=" and "," being pieces of their own. *)
(***************************************************************************)
MaxSetFiles == 2

UPGRADE_CONFIG_MAP_MOUNT_PATH == <<"/upgrade-config-map">>

SetFilePaths == { <<"/root/a.yaml">>, <<"/root/b.yaml">> }

(* The --set-file arguments a user can give: well formed ones, the same    *)
(* key or the same path twice, no '=', two '=', no key and no path.        *)
SetFileArgs ==
    { <<"jaeger.tolerations", "=", "/root/a.yaml">>,
      <<"jaeger.tolerations", "=", "/root/b.yaml">>,
      <<"zfs.affinity", "=", "/root/a.yaml">>,
      <<"zfs.affinity">>,
      <<"zfs.affinity", "=", "/root/a.yaml", "=", "/root/b.yaml">>,
      <<"=", "/root/b.yaml">>,
      <<"lvm.labels", "=">> }

(* What fs::read_to_string finds at each path: no file, or its text.       *)
FileSystems == [SetFilePaths -> {<<>>, <<"text-1">>, <<"text-2">>}]

SetFileInputs ==
    [set_file : UNION {[1..n -> SetFileArgs] : n \in 0..MaxSetFiles},
     files : FileSystems]

read_to_string(files, filepath) ==
    IF filepath \in DOMAIN files THEN files[filepath] ELSE <<>>

(* usize::to_string, in decimal digits.                                    *)
RECURSIVE to_string(_)
to_string(n) ==
    LET digit == <<"0", "1", "2", "3", "4", "5", "6", "7", "8", "9">>[(n % 10) + 1]
    IN  IF n < 10 THEN <<digit>> ELSE to_string(n \div 10) \o <<digit>>

insert(map, key, value) ==
    [k \in DOMAIN map \cup {key} |-> IF k = key THEN value ELSE map[k]]

EmptyMap == [k \in {} |-> <<>>]

(* The loop with upgrade_map recording the index counted from zero.        *)
RECURSIVE config_map_loop_from_zero(_, _, _, _, _)
config_map_loop_from_zero(set_file_arg, files, index, data_map, upgrade_map) ==
    IF index > Len(set_file_arg)
    THEN [res |-> "ok", data_map |-> data_map, upgrade_map |-> upgrade_map]
    ELSE
        LET data == split(set_file_arg[index], "=")
        IN  IF Len(data) # 2
            THEN [res |-> "Invalid set-file argument",
                  data_map |-> EmptyMap, upgrade_map |-> EmptyMap]
            ELSE
                LET filepath  == data[2]
                    cm_values == read_to_string(files, filepath)
                IN  IF cm_values = <<>>
                    THEN [res |-> "read failed",
                          data_map |-> EmptyMap, upgrade_map |-> EmptyMap]
                    ELSE config_map_loop_from_zero(set_file_arg, files, index + 1,
                            insert(data_map, to_string(index), cm_values[1]),
                            insert(upgrade_map, filepath, to_string(index - 1)))

(* for file in set_file_arg { .. } of config_map_data; `index` starts at 1 *)
(* and is also the position in the list.                                   *)
RECURSIVE config_map_loop(_, _, _, _, _)
config_map_loop(set_file_arg, files, index, data_map, upgrade_map) ==
    IF index > Len(set_file_arg)
    THEN [res |-> "ok", data_map |-> data_map, upgrade_map |-> upgrade_map]
    ELSE
        LET data == split(set_file_arg[index], "=")
        IN  IF Len(data) # 2
            THEN [res |-> "Invalid set-file argument",
                  data_map |-> EmptyMap, upgrade_map |-> EmptyMap]
            ELSE
                LET filepath  == data[2]
                    cm_values == read_to_string(files, filepath)
                IN  IF cm_values = <<>>
                    THEN [res |-> "read failed",
                          data_map |-> EmptyMap, upgrade_map |-> EmptyMap]
                    ELSE config_map_loop(set_file_arg, files, index + 1,
                            insert(data_map, to_string(index), cm_values[1]),
                            insert(upgrade_map, filepath, to_string(index)))

config_map_data(set_file_arg, files) ==
    config_map_loop(set_file_arg, files, 1, EmptyMap, EmptyMap)

RECURSIVE join(_, _)
join(strings, separator) ==
    IF strings = <<>> THEN <<>>
    ELSE IF Len(strings) = 1 THEN strings[1]
    ELSE strings[1] \o <<separator>> \o join(Tail(strings), separator)

(* for file in set_file_arg { .. } of job_set_file_args.                   *)
RECURSIVE helm_args_loop(_, _, _, _)
helm_args_loop(set_file_arg, set_file_map, i, helm_args_set_file) ==
    IF i > Len(set_file_arg)
    THEN [res |-> "ok", value |-> <<join(helm_args_set_file, ",")>>]
    ELSE
        LET data == split(set_file_arg[i], "=")
        IN  IF Len(data) # 2
            THEN [res |-> "Error parsing set-file argument", value |-> <<>>]
            ELSE IF set_file_map = <<>> \/ data[2] \notin DOMAIN set_file_map[1]
            THEN [res |-> "Specified key not present", value |-> <<>>]
            ELSE helm_args_loop(set_file_arg, set_file_map, i + 1,
                    Append(helm_args_set_file,
                           data[1] \o <<"=">> \o UPGRADE_CONFIG_MAP_MOUNT_PATH
                                \o <<"/">> \o set_file_map[1][data[2]]))

job_set_file_args(set_file_arg, set_file_map) ==
    IF set_file_arg = <<>> THEN [res |-> "ok", value |-> <<>>]
    ELSE helm_args_loop(set_file_arg, set_file_map, 1, <<>>)

(* create_upgrade_resources, from config_map_data to the Job's argument:   *)
(* `data` is the ConfigMap's data, `set_file` the text handed to           *)
(* upgrade_job (unwrap_or_default of the Option).                          *)
set_file_resources(in) ==
    LET cm_data == config_map_data(in.set_file, in.files)
    IN  IF cm_data.res # "ok"
        THEN [res |-> cm_data.res, data |-> EmptyMap, set_file |-> <<>>]
        ELSE
            LET set_file == job_set_file_args(in.set_file, <<cm_data.upgrade_map>>)
            IN  IF set_file.res # "ok"
                THEN [res |-> set_file.res, data |-> EmptyMap, set_file |-> <<>>]
                ELSE [res |-> "ok", data |-> cm_data.data_map,
                      set_file |-> IF set_file.value = <<>> THEN <<>>
                                   ELSE set_file.value[1]]

InitSetFile ==
    /\ NotStarted
    /\ input \in {<<in>> : in \in SetFileInputs}
    /\ output = <<>>

BuildSetFile ==
    /\ output = <<>>
    /\ Return(set_file_resources(input[1]))

NextSetFile == BuildSetFile

SpecSetFile == InitSetFile /\ [][NextSetFile]_vars

(***************************************************************************)
(* --set-file on the command line.  `set_file: Vec<String>` is declared    *)
(* with #[arg(long)] and no value delimiter, so every occurrence of the    *)
(* option is one element of the Vec, commas included.                      *)
(***************************************************************************)
SetFilePairs ==
    { <<"jaeger.tolerations", "=", "/root/a.yaml">>,
      <<"zfs.affinity", "=", "/root/b.yaml">> }

(* What a user may write after one --set-file: one pair, or pairs          *)
(* separated by commas as the option's help text allows.                   *)
SetFileValues ==
    SetFilePairs
        \cup { p \o <<",">> \o q : p \in SetFilePairs, q \in SetFilePairs }

CommandLines ==
    [values : UNION {[1..n -> SetFileValues] : n \in 0..MaxSetFiles},
     files : FileSystems]

(* clap's parse of the occurrences into UpgradeCommonArgs::set_file.       *)
parse_set_file(values) == values

upgrade_with_set_file(cmd) ==
    set_file_resources([set_file |-> parse_set_file(cmd.values),
                        files |-> cmd.files])

InitCommandLine ==
    /\ NotStarted
    /\ input \in {<<cmd>> : cmd \in CommandLines}
    /\ output = <<>>

ParseAndBuild ==
    /\ output = <<>>
    /\ Return(upgrade_with_set_file(input[1]))

NextCommandLine == ParseAndBuild

SpecCommandLine == InitCommandLine /\ [][NextCommandLine]_vars

(***************************************************************************)
(* create_upgrade_resources from its first line: the five objects are      *)
(* built (config_map_data, job_set_file_args and, inside upgrade_job,      *)
(* ImageProperties::new_from_helm_release can fail, each with `?`), then   *)
(* the five creates are spawned.                                           *)
(***************************************************************************)
BuildFileSystems ==
    { f \in FileSystems : \A p \in SetFilePaths : f[p] \in {<<>>, <<"text-1">>} }

BuildPods ==
    { [spec |-> <<>>],
      [spec |-> << <<Sidecar>> >>],
      [spec |-> << <<Sidecar, [name |-> <<"api-rest">>,
                               image |-> << <<"openebs", "/", "api-rest:v1">> >>]>> >>] }

BuildInputs ==
    [set : [set_file : UNION {[1..n -> SetFileArgs] : n \in 0..MaxSetFiles},
            files : BuildFileSystems],
     image : [release_name : {<<"rel">>},
              registry : {<<>>},
              listOk : BOOLEAN,
              pods : {<<>>} \cup {<<p>> : p \in BuildPods}]]

(* The fan-out started before the Job is built.                            *)
build_upgrade_resources_job_last(in) ==
    LET set_file == set_file_resources(in.set)
    IN  IF set_file.res # "ok" THEN [res |-> "err", spawn |-> FALSE]
        ELSE IF new_from_helm_release(in.image).res # "ok"
             THEN [res |-> "err", spawn |-> TRUE]
             ELSE [res |-> "ok", spawn |-> TRUE]

(* The Result of the statements before try_join!, and whether try_join!    *)
(* is reached.                                                             *)
build_upgrade_resources(in) ==
    LET set_file == set_file_resources(in.set)
    IN  IF set_file.res # "ok" THEN [res |-> "err", spawn |-> FALSE]
        ELSE IF new_from_helm_release(in.image).res # "ok"
             THEN [res |-> "err", spawn |-> FALSE]
             ELSE [res |-> "ok", spawn |-> TRUE]

InitBuild ==
    /\ NotStarted
    /\ input \in {<<in>> : in \in BuildInputs}
    /\ output = <<>>

BuildAndSpawn ==
    /\ pc = "idle"
    /\ LET built == build_upgrade_resources(input[1])
       IN  /\ ctask' = IF built.spawn THEN Spawned ELSE ctask
           /\ IF built.res = "ok"
              THEN pc' = "creating" /\ result' = result
              ELSE Finish("err")
    /\ UNCHANGED <<prev, pfMustFail, present, terminating, events, dtask,
                   purged, polls, latest, console, faults>>
    /\ NamesUnchanged

NextBuild ==
    \/ BuildAndSpawn
    \/ \E k \in Kinds : CreateTask(k)
    \/ JoinCreates

SpecBuild == InitBuild /\ [][NextBuild]_vars

(***************************************************************************)
(* apply_upgrade run again while the five objects of an earlier run of the *)
(* same release and version exist.  `made` is what the cluster stores for  *)
(* each object: the ConfigMap's data and the --set-file text in the Job's  *)
(* arguments.  input[1] is the --set-file input of this run, input[2] that *)
(* of the earlier run.                                                     *)
(***************************************************************************)
RerunFileSystems == { f \in FileSystems : \A p \in SetFilePaths : f[p] # <<>> }

EarlierFiles == [p \in SetFilePaths |-> <<"text-1">>]

RerunInputs ==
    { <<[set_file |-> l, files |-> f], [set_file |-> l, files |-> EarlierFiles]>> :
        l \in { sf \in UNION {[1..n -> SetFileArgs] : n \in 0..MaxSetFiles} :
                    set_file_resources([set_file |-> sf, files |-> EarlierFiles]).res = "ok" },
        f \in RerunFileSystems }

EarlierEvents ==
    { [MkEvent(shape, 1) EXCEPT !.old = TRUE] :
        shape \in { sh \in EventShapes : sh.note = "json" } }

(* The object create_upgrade_resources builds for kind k, as stored.       *)
BuiltObject(k, in) ==
    [id |-> CreateIdentity(k, args),
     data |-> IF k = "ConfigMap" THEN set_file_resources(in).data ELSE EmptyMap,
     set_file |-> IF k = "Job" THEN set_file_resources(in).set_file ELSE <<>>]

InitRerun ==
    /\ args = DefaultArgs
    /\ input \in RerunInputs
    /\ output = <<>>
    /\ present = {CreateIdentity(k, DefaultArgs) : k \in Kinds}
    /\ made = {[id |-> CreateIdentity(k, DefaultArgs),
                data |-> IF k = "ConfigMap" THEN set_file_resources(input[2]).data
                         ELSE EmptyMap,
                set_file |-> IF k = "Job" THEN set_file_resources(input[2]).set_file
                             ELSE <<>>] : k \in Kinds}
    /\ events \in {{}} \cup {{e} : e \in EarlierEvents}
    /\ targeted = {}
    /\ prev = FALSE
    /\ pc = "purge"
    /\ result = "none"
    /\ pfMustFail = FALSE
    /\ terminating = {}
    /\ ctask = NoTasks
    /\ dtask = NoTasks
    /\ purged = FALSE
    /\ polls = 0
    /\ latest = NoEvent
    /\ console = {}
    /\ faults = MaxFaults - 1

(* client.create as a create-or-replace.                                   *)
CreateObject_replacing(k) ==
    /\ pc \in {"creating", "done"}
    /\ ctask[k] = "spawned"
    /\ LET new == BuiltObject(k, input[1])
       IN  /\ ctask' = [ctask EXCEPT ![k] = IF new.id \in present
                                             THEN "AlreadyExists" ELSE "Created"]
           /\ present' = present \cup {new.id}
           /\ made' = {o \in made : o.id # new.id} \cup {new}
    /\ UNCHANGED <<args, targeted, input, output, prev, pc, result, pfMustFail,
                   terminating, events, dtask, purged, polls, latest, console,
                   faults>>

(* One spawned idempotent_create_resource with the object it carries:      *)
(* client.create stores the object when none of its name exists and        *)
(* answers AlreadyExists, storing nothing, when one does.                  *)
CreateObject(k) ==
    /\ pc \in {"creating", "done"}
    /\ ctask[k] = "spawned"
    /\ LET new == BuiltObject(k, input[1])
       IN  \/ /\ new.id \in present \cup terminating
              /\ ctask' = [ctask EXCEPT ![k] = "AlreadyExists"]
              /\ UNCHANGED <<present, made, faults>>
           \/ /\ new.id \notin present \cup terminating
              /\ ctask' = [ctask EXCEPT ![k] = "Created"]
              /\ present' = present \cup {new.id}
              /\ made' = made \cup {new}
              /\ UNCHANGED faults
           \/ /\ faults < MaxFaults
              /\ faults' = faults + 1
              /\ ctask' = [ctask EXCEPT ![k] = "ApiError"]
              /\ UNCHANGED <<present, made>>
    /\ UNCHANGED <<args, targeted, input, output, prev, pc, result, pfMustFail,
                   terminating, events, dtask, purged, polls, latest, console>>

NextRerun ==
    \/ DeleteOlderEvents
    \/ SpawnCreates
    \/ \E k \in Kinds : CreateObject(k)
    \/ JoinCreates

SpecRerun == InitRerun /\ [][NextRerun]_vars

(***************************************************************************)
(* The upgrade command with its --dry-run flag.  The flag is a field of    *)
(* UpgradeCommonArgs; Upgrade::execute dispatches on the subcommand only   *)
(* and apply_upgrade never reads the field, so the steps of the command    *)
(* are those of Next whatever its value.                                   *)
(***************************************************************************)
DryRunArgs == [dry_run : BOOLEAN]

InitDryRun ==
    /\ input \in {<<a>> : a \in DryRunArgs}
    /\ output = <<>>
    /\ args = DefaultArgs
    /\ prev = FALSE
    /\ pc = "idle"
    /\ result = "none"
    /\ pfMustFail = FALSE
    /\ present = {}
    /\ terminating = {}
    /\ events = {}
    /\ ctask = NoTasks
    /\ dtask = NoTasks
    /\ purged = FALSE
    /\ polls = 0
    /\ latest = NoEvent
    /\ console = {}
    /\ faults = 0
    /\ made = {}
    /\ targeted = {}

SpecDryRun == InitDryRun /\ [][Next]_vars

----------------------------------------------------------------------------
(* Properties.                                                             *)

Bundle(a) == {CreateIdentity(k, a) : k \in Kinds}

Finished == pc = "done"

C2_ValidationFailedRollsBack ==
    (latest.action = "Validation Failed") => \A k \in Kinds : dtask[k] # "none"

(* C3: if one of the five creates fails for a reason other than "already   *)
(* exists", the attempt issues the deletion of the bundle before it ends   *)
(* in error.                                                               *)
C3_CreateFailureRollsBack ==
    (Finished /\ \E k \in Kinds : ctask[k] = "err") => \A k \in Kinds : dtask[k] # "none"

(* C4: no Event that existed when the attempt started is selected by its   *)
(* poll loop; a "Validation Failed" Event left by an earlier attempt never *)
(* makes the new attempt roll back.                                        *)
C4_NoStaleEventSelected ==
    /\ latest # NoEvent => ~latest.old
    /\ pc = "poll" => \A e \in events : ~e.old

C4_Witness ==
    /\ prev
    /\ purged
    /\ pc = "done"
    /\ polls = PollAttempts
    /\ latest = NoEvent
    /\ dtask = NoTasks

(* C5: the purge of the older Events has completed before the first of the *)
(* five create requests is issued, and the first event list of the poll    *)
(* loop is issued only after all five creates have returned Ok.            *)
C5_PurgeThenCreateThenPoll ==
    /\ (\E k \in Kinds : ctask[k] # "none") => purged
    /\ (pc = "poll" \/ polls > 0) => \A k \in Kinds : ctask[k] = "ok"

C5_Witness == purged /\ polls = 1 /\ pc = "poll" /\ \A k \in Kinds : ctask[k] = "ok"

(* C6: create_upgrade_resources is idempotent: an "already exists" answer  *)
(* is not an error (the fan-out fails only on another API error), and      *)
(* after any number of calls the cluster holds at most one object per kind *)
(* of the bundle, all under the five names the release and the version     *)
(* suffix determine.                                                       *)
C6_CreateIdempotent ==
    /\ CreateJoin(ctask) = "err" => \E k \in Kinds : ctask[k] = "ApiError"
    /\ (\E k \in Kinds : ctask[k] = "err") => faults > 0
    /\ \A id \in present \cup terminating : id = CreateIdentity(id.kind, args)

C6_Witness ==
    /\ pc = "creating"
    /\ \A k \in Kinds : ctask[k] = "AlreadyExists"
    /\ CreateJoin(ctask) = "ok"
    /\ present = Bundle(args)

(* C7: delete_upgrade_resources returns no error whether none, some or all *)
(* of the five objects exist: a "not found" answer is a success (the       *)
(* fan-out fails only on another API error), and a delete that was         *)
(* answered leaves its object not live, so that a second call finds        *)
(* nothing to change.                                                      *)
C7_DeleteIdempotent ==
    /\ DeleteJoin(dtask) = "err" => \E k \in Kinds : dtask[k] = "ApiError"
    /\ (\E k \in Kinds : dtask[k] = "err") => faults > 0
    /\ \A k \in Kinds : dtask[k] \in {"Deleted", "NotFound", "ok"} =>
            DeleteIdentity(k, args) \notin present
    /\ \A k \in Kinds : dtask[k] = "NotFound" =>
            DeleteIdentity(k, args) \notin present \cup terminating

C7_Witness ==
    /\ pc = "deleting"
    /\ dtask["Job"] = "NotFound"
    /\ \A k \in Kinds \ {"Job"} : dtask[k] = "Deleted"
    /\ DeleteJoin(dtask) = "ok"

(* C8: for every release name, namespace and version suffix, the           *)
(* identities (kind, namespace, name) delete_upgrade_resources addresses   *)
(* are exactly the five identities create_upgrade_resources creates.       *)
C8_DeleteTargetsTheBundle ==
    /\ targeted \subseteq {CreateIdentity(k, args) : k \in Kinds}
    /\ made \subseteq {DeleteIdentity(k, args) : k \in Kinds}
    /\ (Cardinality(made) = 5 /\ Cardinality(targeted) = 5) => made = targeted

C8_Witness ==
    /\ Cardinality(made) = 5
    /\ targeted = made
    /\ args.release = <<"r", ".", "1">>
    /\ args.ns = "storage"
    /\ args.tag = <<"v4", ".", "3", ".", "0", "-", "rc", ".", "1">>

(* C9: after an attempt that ended in rollback, the next                   *)
(* create_upgrade_resources for the same release that returns Ok leaves    *)
(* all five bundle objects existing in the cluster.                        *)
C9_RecreateAfterRollback ==
    (prev /\ pc = "poll") => Bundle(args) \subseteq present \cup terminating

TimedOut ==
    /\ Finished
    /\ polls = PollAttempts
    /\ latest = NoEvent

InProgress ==
    /\ result = "ok"
    /\ latest # NoEvent
    /\ latest.action # "Validation Failed"
    /\ dtask = NoTasks

RolledBack ==
    /\ result = "ok"
    /\ latest.action = "Validation Failed"
    /\ \A k \in Kinds : dtask[k] = "ok"

Fatal == result = "err"

Running == pc \notin {"idle", "done"}

Pending(t) == Cardinality({k \in Kinds : t[k] = "spawned"})

(* An upper bound of the steps the attempt has left.                       *)
StepsLeft ==
    CASE pc = "deleting"  -> 1 + Pending(dtask)
      [] pc = "poll"      -> 6 + (PollAttempts - polls)
      [] pc = "creating"  -> 7 + PollAttempts + Pending(ctask)
      [] pc = "provision" -> 13 + PollAttempts
      [] pc = "purge"     -> 14 + PollAttempts
      [] pc = "preflight" -> 15 + PollAttempts
      [] OTHER            -> 0

(* C11: the poll loop lists the events at most six times per attempt, and  *)
(* apply_upgrade, when every API call returns, always terminates (an       *)
(* attempt that has not ended can always take a step, and every step       *)
(* lowers the bounded count of the steps left: nothing is retried), in     *)
(* exactly one of IN_PROGRESS, ROLLED_BACK, TIMED_OUT or a fatal error     *)
(* (an attempt a signal interrupted did not return from apply_upgrade).    *)
C11_BoundedPollAndTermination ==
    /\ [](polls <= PollAttempts)
    /\ []((Finished /\ result # "interrupted") =>
            \E o \in {"in_progress", "rolled_back", "timed_out", "fatal"} :
                /\ (o = "in_progress") = InProgress
                /\ (o = "rolled_back") = RolledBack
                /\ (o = "timed_out") = TimedOut
                /\ (o = "fatal") = Fatal)
    /\ [](Running => ENABLED ProcessNext)
    /\ [][Running /\ ProcessNext => StepsLeft' < StepsLeft]_vars

C11_Witness == Finished /\ RolledBack /\ polls = PollAttempts

FoundOther == latest # NoEvent /\ latest.action # "Validation Failed"

Known(list) == {i \in 1..Len(list) : list[i].reason = "OpenebsUpgrade"}

Newest(list) == {i \in Known(list) : \A j \in Known(list) : list[j].time <= list[i].time}

CreateReturnedErr == Finished /\ result = "err" /\ purged /\ polls = 0

(* C14: create_upgrade_resources returns an error if and only if one of    *)
(* the five creates got an answer other than success or "already exists"   *)
(* (or a step before the fan-out failed), and delete_upgrade_resources     *)
(* returns an error if and only if one of the five deletes got an answer   *)
(* other than success or "not found".                                      *)
C14_ErrorIffATaskFailed ==
    /\ (CreateJoin(ctask) = "err") = (\E k \in Kinds : ctask[k] = "ApiError")
    /\ (DeleteJoin(dtask) = "err") = (\E k \in Kinds : dtask[k] = "ApiError")
    /\ CreateJoin(ctask) = "ok" => \A k \in Kinds : ctask[k] \in {"Created", "AlreadyExists"}
    /\ DeleteJoin(dtask) = "ok" => \A k \in Kinds : dtask[k] \in {"Deleted", "NotFound"}
    /\ CreateReturnedErr = (/\ Finished
                            /\ result # "interrupted"
                            /\ \/ \E k \in Kinds : ctask[k] = "err"
                               \/ purged /\ ctask = NoTasks)
    /\ (Finished /\ result # "interrupted" /\ dtask # NoTasks) =>
            (result = "err") = (\E k \in Kinds : dtask[k] = "err")

C14_Witness ==
    /\ Finished
    /\ result = "err"
    /\ dtask["ConfigMap"] = "err"
    /\ dtask["Job"] = "ok"
    /\ dtask["ServiceAccount"] = "Deleted"

(* Every object but the request's own is where it was, and so are the     *)
(* other tasks.                                                            *)
OthersUntouched(k) ==
    /\ \A j \in Kinds \ {k} : ctask'[j] = ctask[j] /\ dtask'[j] = dtask[j]
    /\ LET own == {CreateIdentity(k, args)}
       IN  /\ present' \ own = present \ own
           /\ terminating' \ own = terminating \ own

(* C15: the five concurrent creates, and the five concurrent deletes,      *)
(* address pairwise distinct (kind, namespace, name) identities (five      *)
(* tasks spawned, five identities); a task's                               *)
(* request changes its own object only, and once all five have succeeded   *)
(* the cluster holds the state their order cannot change: the five objects *)
(* after five creations, none of them live after five deletions.           *)
C15_DistinctTargetsCommute ==
    /\ [](ctask = Spawned =>
            Cardinality({CreateIdentity(k, args) : k \in Kinds}) = Cardinality(Kinds))
    /\ [](dtask = Spawned =>
            Cardinality({DeleteIdentity(k, args) : k \in Kinds}) = Cardinality(Kinds))
    /\ [][\A k \in Kinds : (CreateTask(k) \/ DeleteTask(k)) => OthersUntouched(k)]_vars
    /\ []((pc = "creating" /\ \A k \in Kinds : ctask[k] = "Created") =>
            present = Bundle(args))
    /\ []((pc = "deleting" /\ \A k \in Kinds : dtask[k] \in {"Deleted", "NotFound"}) =>
            present = {})

C15_Witness ==
    /\ pc = "creating"
    /\ \A k \in Kinds : ctask[k] = "Created"
    /\ present = Bundle(args)
    /\ terminating = {}
    /\ prev

Interrupted == Finished /\ result = "interrupted"

(* C16: a signal can interrupt the attempt wherever it is (preflight,      *)
(* purge, provisioning, creation, polling, rollback); the interrupted      *)
(* attempt ends in error, and the interrupt starts no deletion of the      *)
(* bundle: unless a "Validation Failed" event had already started the      *)
(* rollback, no delete task exists and every object the attempt created    *)
(* is still in the cluster.                                                *)
C16_InterruptAbortsWithoutRollback ==
    /\ Running => ENABLED Interrupt
    /\ Interrupted =>
        /\ Outcome = "error"
        /\ latest.action # "Validation Failed" => dtask = NoTasks
        /\ dtask = NoTasks =>
                \A k \in Kinds : ctask[k] = "Created" => CreateIdentity(k, args) \in present

C16_Witness ==
    /\ Interrupted
    /\ polls = 2
    /\ latest = NoEvent
    /\ Bundle(args) \subseteq present
    /\ events # {}
    /\ dtask = NoTasks

(* The checks of CheckOrder[1..n] whose skip flag is unset.                *)
NonSkipped(in, n) == SelectSeq(SubSeq(CheckOrder, 1, n), LAMBDA c : ~in.skip[c])

(* The position of the first non-skipped check the cluster state fails,    *)
(* 0 if there is none.                                                     *)
FirstFailing(in) ==
    LET F == {i \in 1..Len(CheckOrder) : ~in.skip[CheckOrder[i]] /\ in.fail[CheckOrder[i]]}
    IN  IF F = {} THEN 0 ELSE CHOOSE i \in F : \A j \in F : i <= j

(* C17: with the replicated engine enabled, the checks run in the order    *)
(* upgrade path, rebuild, cordoned nodes, single replica, each only if its *)
(* skip flag is unset; the preflight returns the error of the first        *)
(* non-skipped check that fails and runs no check after it, and returns Ok *)
(* after all the non-skipped checks when none fails.  (The Kubernetes      *)
(* client of the single-replica check is built when that check is reached; *)
(* its failure is an error of its own, returned before the check runs.)    *)
C17_ChecksInOrderFirstErrorWins ==
    (output # <<>> /\ input[1].releaseOk /\ input[1].enabled /\ input[1].configOk) =>
        LET in == input[1]
            out == output[1]
            f == FirstFailing(in)
        IN  IF f \in {0, Len(CheckOrder)} /\ ~in.skip["single"] /\ ~in.clientOk
            THEN out = PreflightErr(NonSkipped(in, Len(CheckOrder) - 1), "client")
            ELSE IF f = 0
            THEN out = PreflightOk(NonSkipped(in, Len(CheckOrder)))
            ELSE out = PreflightErr(NonSkipped(in, f), CheckOrder[f])

C17_Witness ==
    /\ output # <<>>
    /\ input[1].enabled
    /\ input[1].skip = [c \in Checks |-> c = "path"]
    /\ input[1].fail = [c \in Checks |-> c # "rebuild"]
    /\ output[1] = PreflightErr(<<"rebuild", "cordon">>, "cordon")
    /\ Finished

DevelopmentBuild(in) ==
    in.version_tag = <<>> \/ contains_develop(in.version_tag[1])

(* The target is not a stable release: its tag is no semantic version, or  *)
(* one with a pre-release.                                                 *)
TargetUnstable(in) ==
    self_version(in.version_tag) = <<>> \/ self_version(in.version_tag)[1].pre # <<>>

(* Precedence of semantic versions: major, minor, patch, then the          *)
(* pre-release; build metadata does not count.                             *)
Precedes(a, b) ==
    \/ CmpCore(a.core, b.core) = -1
    \/ a.core = b.core /\ CmpPre(a.pre, b.pre) = -1

OwnVersionLower(in) ==
    /\ self_version(in.version_tag) # <<>>
    /\ Precedes(self_version(in.version_tag)[1], in.source_version)

(* C19: for every source version, version tag of the binary and value of   *)
(* allow_unstable, the upgrade-path validation fails if and only if the    *)
(* target is a development build, or the source is stable, the target is   *)
(* unstable and allow_unstable is false, or the binary's own version is    *)
(* lower than the source in semantic-version order; allow_unstable changes *)
(* nothing about the first and the last condition.                         *)
C19_PathValidationFailsIff ==
    output # <<>> =>
        LET in == input[1]
        IN  /\ (output[1] # "ok") =
                    \/ DevelopmentBuild(in)
                    \/ in.source_version.pre = <<>> /\ TargetUnstable(in) /\ ~in.allow_unstable
                    \/ OwnVersionLower(in)
            /\ (DevelopmentBuild(in) \/ OwnVersionLower(in)) =>
                    upgrade_path_validation(TRUE, in.source_version, in.version_tag) # "ok"

(* The volumes of the cluster provisioned with exactly one replica.        *)
Singles(in) == {i \in 1..Len(in.vols) : in.vols[i] = 1}

(* The requests the pagination over the volumes takes.                     *)
Requests(in) ==
    IF Len(in.vols) = 0 THEN 1 ELSE (Len(in.vols) + in.size - 1) \div in.size

(* The names of the claims whose uid is the uuid of a single-replica       *)
(* volume.                                                                 *)
ExposedClaims(in) ==
    {in.pvcs[j].name[1] : j \in {j \in 1..Len(in.pvcs) :
        /\ in.pvcs[j].name # <<>>
        /\ \E i \in Singles(in) : in.pvcs[j].uid = <<uuid_to_string(i)>>}}

(* C20: the single-replica check fails if and only if, across all the      *)
(* pages of volumes, at least one volume has exactly one replica, and the  *)
(* message of that failure lists exactly the names of the claims whose uid *)
(* is the uuid of such a volume, each once.  (A request of the pagination  *)
(* that fails, or a failed list of the claims, is an error of its own,     *)
(* with no list printed.)                                                  *)
C20_SingleReplicaCheck ==
    output # <<>> =>
        LET in == input[1]
            out == output[1]
        IN  IF in.failAt \in 1..Requests(in)
            THEN out = [res |-> "Failed to list Mayastor volumes", listed |-> <<>>]
            ELSE /\ (out.res # "ok") = (Singles(in) # {})
                 /\ Singles(in) # {} =>
                        IF in.pvcOk
                        THEN /\ out.res = "Single replica volume present in cluster"
                             /\ HashSet_from_iter(out.listed) = ExposedClaims(in)
                             /\ Len(out.listed) = Cardinality(ExposedClaims(in))
                        ELSE out = [res |-> "Failed to list PVCs", listed |-> <<>>]

C20_Witness ==
    /\ output # <<>>
    /\ input[1].vols = <<1, 3, 1>>
    /\ input[1].size = 2
    /\ input[1].pvcs = << [uid |-> <<"u2">>, name |-> <<"data-vol-0">>],
                          [uid |-> <<"u3">>, name |-> <<"logs-0">>] >>
    /\ output[1] = [res |-> "Single replica volume present in cluster",
                    listed |-> <<"logs-0">>]

(* The nodes of the list that carry a cordoned or drain state.             *)
CordonedOrDrained(in) ==
    {i \in 1..Len(in.specs) :
        in.specs[i] # <<>> /\ in.specs[i][1].cordondrainstate # <<>>}

(* C21: when the node list is served and every node has a spec, the        *)
(* cordoned-node check fails if and only if at least one node carries a    *)
(* cordoned or drain state (cordoned, draining or drained), and the        *)
(* message of the failure lists the ids of exactly those nodes.            *)
C21_CordonOrDrainFails ==
    (output # <<>> /\ input[1].listOk /\ \A i \in 1..Len(input[1].specs) : input[1].specs[i] # <<>>) =>
        LET in == input[1]
            out == output[1]
        IN  /\ (out.res # "ok") = (CordonedOrDrained(in) # {})
            /\ {out.listed[j] : j \in 1..Len(out.listed)} =
                    {NodeIds[i] : i \in CordonedOrDrained(in)}

(* The volumes with an active target one of whose children reports a       *)
(* rebuild progress.                                                       *)
Rebuilding(in) ==
    {i \in 1..Len(in.vols) :
        /\ in.vols[i] # <<>>
        /\ \E j \in 1..Len(in.vols[i][1].children) : in.vols[i][1].children[j] # <<>>}

(* The page volume i is served on.                                         *)
PageOf(in, i) == (i + in.size - 1) \div in.size

(* The first page that holds a rebuilding volume, 0 if none does.          *)
FirstRebuildingPage(in) ==
    IF Rebuilding(in) = {} THEN 0
    ELSE PageOf(in, CHOOSE i \in Rebuilding(in) : \A k \in Rebuilding(in) : i <= k)

(* C22 as claimed: when no request fails, the rebuild check requests every *)
(* page of volumes, until the server returns no token, and fails if and    *)
(* only if some volume on some page has an active target with a child that *)
(* reports rebuild progress.                                               *)
C22_EveryPageFollowed ==
    (output # <<>> /\ input[1].failAt \notin 1..Requests(input[1])) =>
        /\ output[1].requests = Requests(input[1])
        /\ (output[1].res # "ok") = (Rebuilding(input[1]) # {})

(* C22 as amended: the rebuild check requests the pages of volumes in      *)
(* order, following the token, until the server returns no token or a page *)
(* holds a volume with an active target one of whose children reports      *)
(* rebuild progress: it fails there, without requesting the pages after    *)
(* it.  So it fails if and only if some volume on some page is rebuilding, *)
(* a failed request before that being an error of its own.                 *)
C22_PagesFollowedUntilRebuildFound ==
    output # <<>> =>
        LET in == input[1]
            out == output[1]
            f == FirstRebuildingPage(in)
            asked == IF f = 0 THEN Requests(in) ELSE f
        IN  IF in.failAt \in 1..asked
            THEN out = [res |-> "Failed to list Mayastor volumes", requests |-> in.failAt]
            ELSE /\ out.requests = asked
                 /\ (out.res # "ok") = (Rebuilding(in) # {})
                 /\ out.res \in {"ok", "Cluster is rebuilding replica of some volumes."}

C22_Witness ==
    /\ output # <<>>
    /\ Len(input[1].vols) = 3
    /\ input[1].size = 1
    /\ input[1].failAt = 0
    /\ FirstRebuildingPage(input[1]) = 2
    /\ input[1].vols[1] = <<>>
    /\ input[1].vols[2] = <<[children |-> <<<<>>, <<40>>>>]>>
    /\ output[1] = [res |-> "Cluster is rebuilding replica of some volumes.", requests |-> 2]

(* The listed objects that hold a release of the chart "openebs".          *)
Candidates(in) == {i \in 1..Len(in.objects) : in.objects[i].chart = "openebs"}

(* Every listed object carries its release name and decodes to a release   *)
(* with a chart.                                                           *)
Readable(in) ==
    \A i \in 1..Len(in.objects) :
        in.objects[i].name # <<>> /\ in.objects[i].chart \in ChartNames

(* C23: when no release name is given (and the storage driver is supported *)
(* and its objects are listed), the resolution returns a name only if      *)
(* exactly one listed object holds a release of the chart "openebs", and   *)
(* then the name of that release; with no such object or more than one it  *)
(* returns an error, never one of the candidates.  (An object that cannot  *)
(* be read is an error as well.)                                           *)
C23_ExactlyOneOpenebsRelease ==
    (/\ output # <<>>
     /\ input[1].release_name = <<>>
     /\ input[1].listOk
     /\ input[1].driver # "memory") =>
        LET in == input[1]
            out == output[1]
        IN  /\ (out.res = "ok") = (Cardinality(Candidates(in)) = 1 /\ Readable(in))
            /\ out.res = "ok" => \A i \in Candidates(in) : out.name = ReleaseNames[i]
            /\ (Readable(in) /\ Candidates(in) = {}) =>
                    out = ReleaseErr("there aren't any 'openebs' charts installed")
            /\ (Readable(in) /\ Cardinality(Candidates(in)) > 1) =>
                    out = ReleaseErr("there are too many 'openebs' charts installed")

C23_Witness ==
    /\ output # <<>>
    /\ input[1].release_name = <<>>
    /\ input[1].driver = "configmaps"
    /\ Len(input[1].objects) = 3
    /\ Candidates(input[1]) = {1, 3}
    /\ Readable(input[1])
    /\ output[1] = ReleaseErr("there are too many 'openebs' charts installed")

(* The value at a path of keys of the document, <<>> when a key of the     *)
(* path is absent at any level.                                            *)
RECURSIVE ValueAt(_, _)
ValueAt(json, path) ==
    IF json = <<>> THEN <<>>
    ELSE IF path = <<>> THEN json
    ELSE ValueAt(json[1][Head(path)], Tail(path))

FlagPaths(doc) ==
    << ValueAt(doc.config, <<"engines", "replicated", "mayastor", "enabled">>),
       ValueAt(doc.config, <<"mayastor", "enabled">>),
       ValueAt(doc.values, <<"engines", "replicated", "mayastor", "enabled">>),
       ValueAt(doc.values, <<"mayastor", "enabled">>) >>

(* C24: the replicated-engine flag resolves to the value at the first      *)
(* present path among config.engines.replicated.mayastor.enabled,          *)
(* config.mayastor.enabled, values.engines.replicated.mayastor.enabled and *)
(* values.mayastor.enabled, a path absent at any level falling through to  *)
(* the next, and to false when all four are absent.                        *)
C24_FirstPresentPathWins ==
    output # <<>> =>
        LET paths == FlagPaths(input[1])
            there == {i \in 1..4 : paths[i] # <<>>}
        IN  /\ output[1].res = "ok"
            /\ output[1].enabled =
                    IF there = {} THEN FALSE
                    ELSE paths[CHOOSE i \in there : \A j \in there : i <= j][1]


(***************************************************************************)
(* C25: for every set of CRD names in the cluster, the toggles forced to   *)
(* false are exactly those of the declared groups holding at least one of  *)
(* the names, each written once: none for an empty cluster set, none for   *)
(* names of no group, one for a single CRD of a group.                     *)
(***************************************************************************)
GroupsPresent(names) ==
    {e \in crds_to_helm_toggle : e.crd_set \cap names # {}}

C25_TogglesAreGroupsWithAnExistingCrd ==
    (output # <<>> /\ output[1].res = "ok") =>
        LET names  == input[1].all_crd_names
            writes == output[1].writes
        IN  /\ {writes[i] : i \in DOMAIN writes}
                    = {e.helm_toggle : e \in GroupsPresent(names)}
            /\ Len(writes) = Cardinality(GroupsPresent(names))
            /\ names = {} => writes = <<>>
            /\ names \cap UNION {e.crd_set : e \in crds_to_helm_toggle} = {}
                    => writes = <<>>

C25_Witness ==
    /\ output # <<>>
    /\ input[1].all_crd_names
            = {"zfsnodes.zfs.openebs.io", "certificates.cert-manager.io"}
    /\ output[1].writes = <<".zfs-localpv.crds.zfsLocalPv.enabled">>

(***************************************************************************)
(* C26: the values file is created whatever the versions are; toggles are  *)
(* written, and the cluster's CRDs listed, only when the source version is *)
(* below 4.0.0 and the target version is not.                              *)
(***************************************************************************)
Below4(v) ==
    \/ v.core[1] < 4
    \/ v.core = <<4, 0, 0>> /\ v.pre # <<>>

CrossesFour(in) == Below4(in.source_version) /\ ~Below4(in.target_version)

C26_TogglesOnlyAcrossFour ==
    (output # <<>> /\ input[1].fileOk) =>
        /\ output[1].created
        /\ output[1].res = "ok" => output[1].file
        /\ ~CrossesFour(input[1]) =>
                /\ output[1].res = "ok"
                /\ output[1].writes = <<>>
                /\ ~output[1].listed
        /\ CrossesFour(input[1]) => output[1].listed

C26_Witness ==
    /\ output # <<>>
    /\ input[1].fileOk
    /\ input[1].source_version = Version(<<4, 0, 0>>, <<>>, <<>>)
    /\ input[1].target_version = Version(<<4, 0, 1>>, <<>>, <<>>)
    /\ input[1].crds.all_crd_names = {"jaegers.jaegertracing.io"}
    /\ output[1].file
    /\ output[1].writes = <<>>


(***************************************************************************)
(* C27: the registry of the upgrade job's image is the --registry value    *)
(* when one is given; otherwise the first segment of the inspected         *)
(* container's image when the image has exactly three segments between     *)
(* '/'; otherwise docker.io.                                               *)
(***************************************************************************)
Inspected(in) ==
    LET known == openebs_containers(in.release_name)
        at == {ij \in (1..MaxPods + 1) \X (1..2) :
                /\ ij[1] \in DOMAIN in.pods
                /\ in.pods[ij[1]].spec # <<>>
                /\ ij[2] \in DOMAIN in.pods[ij[1]].spec[1]
                /\ in.pods[ij[1]].spec[1][ij[2]].name \in known}
        first == CHOOSE ij \in at : \A kl \in at :
                    \/ ij[1] < kl[1]
                    \/ ij[1] = kl[1] /\ ij[2] <= kl[2]
    IN  IF at = {} THEN <<>> ELSE <<in.pods[first[1]].spec[1][first[2]]>>

Slashes(img) == Cardinality({i \in DOMAIN img : img[i] = "/"})

C27_RegistryChoice ==
    (output # <<>> /\ output[1].res = "ok") =>
        LET in == input[1]
            c  == Inspected(in)
        IN  /\ c # <<>>
            /\ in.registry # <<>> => output[1].registry = in.registry[1]
            /\ (in.registry = <<>> /\ c[1].image # <<>>
                    /\ Slashes(c[1].image[1]) = 2) =>
                    /\ ~contains(output[1].registry, "/")
                    /\ output[1].registry \o <<"/">>
                        = SubSeq(c[1].image[1], 1, Len(output[1].registry) + 1)
            /\ (in.registry = <<>>
                    /\ (c[1].image = <<>> \/ Slashes(c[1].image[1]) # 2)) =>
                    output[1].registry = <<"docker.io">>

C27_Witness ==
    /\ output # <<>>
    /\ input[1].registry = <<>>
    /\ input[1].pods
         = << [spec |-> << <<Sidecar>> >>],
              [spec |-> << <<Sidecar,
                             [name |-> <<"api-rest">>,
                              image |-> << <<"quay.io", "/", "openebs", "/",
                                             "api-rest:v1">> >>]>> >>] >>
    /\ output[1].registry = <<"quay.io">>


(***************************************************************************)
(* C28: the status query asks for the Events by the field selector that    *)
(* apply_upgrade derives for the same release and version tag, picks the   *)
(* one the poll loop would pick, prints that Event's from and to versions  *)
(* and message, and leaves every cluster object and Event as it was.       *)
(***************************************************************************)
StatusRelease ==
    IF input[1].release_name # <<>> THEN input[1].release_name[1]
    ELSE input[1].helm[1]

C28_StatusReport ==
    (output # <<>> /\ output[1].selector # <<>>) =>
        LET selector == upgrade_events_field_selector(WithRelease(args, StatusRelease))
            regarded == {e \in events : /\ e.regarding.kind = "Job"
                                        /\ e.regarding.name = selector.name}
        IN  /\ output[1].selector[1] = selector
            /\ output[1].event # <<>> =>
                    output[1].event[1] \in get_latest_upgrade_event(regarded)
            /\ (output[1].event = <<>> /\ input[1].listOk) =>
                    get_latest_upgrade_event(regarded) = {}
            /\ output[1].res = "ok" =>
                    LET n == output[1].event[1].note[1]
                    IN  console =
                            { [line |-> "Upgrade From", text |-> n.fromVersion[1]],
                              [line |-> "Upgrade To", text |-> n.toVersion[1]],
                              [line |-> "Upgrade Status", text |-> n.message[1]] }
            /\ output[1].res # "ok" => console = {}

C28_StatusIsReadOnly ==
    /\ []C28_StatusReport
    /\ [][UNCHANGED <<present, terminating, events, ctask, dtask, purged>>]_vars

C28_Witness ==
    /\ output # <<>>
    /\ output[1].res = "ok"
    /\ Cardinality(events) = 2
    /\ \A e \in events : e.reason = "OpenebsUpgrade" /\ e.regarding.kind = "Job"
    /\ \E e \in events : e.note = ForeignNote
    /\ [line |-> "Upgrade Status", text |-> "Upgrading"] \in console
    /\ present = Kinds


(***************************************************************************)
(* C29: for every list of valid --set-file arguments key_i=path_i, the     *)
(* ConfigMap holds the files' texts under small integer keys, and the i-th *)
(* entry of the Job's argument is key_i=/upgrade-config-map/k with k a key *)
(* of the ConfigMap whose value is the text of path_i; no entry names a    *)
(* key the ConfigMap lacks.                                                *)
(***************************************************************************)
Equals(arg) == {i \in DOMAIN arg : arg[i] = "="}

ValidSetFile(in) ==
    \A i \in DOMAIN in.set_file :
        LET arg == in.set_file[i]
        IN  /\ Cardinality(Equals(arg)) = 1
            /\ arg[Len(arg)] # "="
            /\ in.files[<<arg[Len(arg)]>>] # <<>>

SmallKeys(n) ==
    { <<k>> : k \in {"1", "2", "3", "4", "5", "6", "7", "8", "9"} }
        \cap { to_string(j) : j \in 1..n }

C29_JobReferencesConfigMapKeys ==
    output # <<>> =>
        LET in      == input[1]
            entries == IF output[1].set_file = <<>> THEN <<>>
                       ELSE split(output[1].set_file, ",")
        IN  /\ ValidSetFile(in) <=> output[1].res = "ok"
            /\ output[1].res = "ok" =>
                /\ DOMAIN output[1].data = SmallKeys(Len(in.set_file))
                /\ Len(entries) = Len(in.set_file)
                /\ \A i \in DOMAIN in.set_file :
                    LET arg  == in.set_file[i]
                        eq   == CHOOSE e \in Equals(arg) : TRUE
                        key  == SubSeq(arg, 1, eq - 1)
                        path == SubSeq(arg, eq + 1, Len(arg))
                    IN  \E k \in DOMAIN output[1].data :
                            /\ entries[i] = key \o <<"=", "/upgrade-config-map", "/">> \o k
                            /\ <<output[1].data[k]>> = in.files[path]

C29_Witness ==
    /\ output # <<>>
    /\ output[1].res = "ok"
    /\ input[1].set_file = << <<"zfs.affinity", "=", "/root/a.yaml">>,
                              <<"jaeger.tolerations", "=", "/root/a.yaml">> >>
    /\ output[1].set_file
            = <<"zfs.affinity", "=", "/upgrade-config-map", "/", "2", ",",
                "jaeger.tolerations", "=", "/upgrade-config-map", "/", "2">>


(***************************************************************************)
(* C30: with --dry-run set the upgrade command shows the validations but   *)
(* does not execute the upgrade: the stale Events are not purged and none  *)
(* of the five objects is created.                                         *)
(***************************************************************************)
C30_DryRunExecutesNothing ==
    (input # <<>> /\ input[1].dry_run) =>
        /\ ~purged
        /\ ctask = NoTasks
        /\ present = {}


(***************************************************************************)
(* C31: a --set-file value that carries several pairs separated by commas  *)
(* is accepted and gives the ConfigMap data and the Job argument that the  *)
(* same pairs give as separate --set-file values.                          *)
(***************************************************************************)
RECURSIVE SeparatePairs(_)
SeparatePairs(values) ==
    IF values = <<>> THEN <<>>
    ELSE split(values[1], ",") \o SeparatePairs(Tail(values))

C31_CommaSeparatedPairsAccepted ==
    (output # <<>> /\ \A path \in SetFilePaths : input[1].files[path] # <<>>) =>
        output[1] = set_file_resources(
                        [set_file |-> SeparatePairs(input[1].values),
                         files |-> input[1].files])


(***************************************************************************)
(* C32: requires_partial_rebuild_disable(v) is true if and only if         *)
(* 3.7.0 <= v < 3.10.0 in semantic-version order; it is false at 3.10.0.   *)
(***************************************************************************)
InDefectWindow(v) ==
    /\ ~Precedes(v, Version(<<3, 7, 0>>, <<>>, <<>>))
    /\ Precedes(v, Version(<<3, 10, 0>>, <<>>, <<>>))

C32_PartialRebuildWindow ==
    output # <<>> =>
        /\ output[1] = InDefectWindow(input[1])
        /\ input[1] = Version(<<3, 10, 0>>, <<>>, <<>>) => output[1] = FALSE

C32_Witness ==
    /\ output = <<TRUE>>
    /\ input[1] = Version(<<3, 10, 0>>, <<"rc", "1">>, <<>>)


(***************************************************************************)
(* C33: for every release name, namespace and version tag the objects of   *)
(* one bundle name each other: the Job runs as the created ServiceAccount  *)
(* and mounts the created ConfigMap, the ClusterRoleBinding binds the      *)
(* created ClusterRole to the created ServiceAccount of the upgrade        *)
(* namespace, and the Events are selected by the created Job's name.       *)
(***************************************************************************)
Created(k) == CreateIdentity(k, args)

C33_BundleReferencesAgree ==
    LET job     == upgrade_job(args)
        binding == upgrade_job_cluster_role_binding(args)
    IN  /\ Identity("Job", job.namespace, job.name) = Created("Job")
        /\ Identity("ServiceAccount", job.namespace, job.service_account_name)
                = Created("ServiceAccount")
        /\ Identity("ConfigMap", job.namespace, job.config_map_volume)
                = Created("ConfigMap")
        /\ Identity("ClusterRoleBinding", ClusterScope, binding.name)
                = Created("ClusterRoleBinding")
        /\ Identity(binding.role_ref.kind, ClusterScope, binding.role_ref.name)
                = Created("ClusterRole")
        /\ Identity(binding.subject.kind, binding.subject.namespace,
                    binding.subject.name) = Created("ServiceAccount")
        /\ upgrade_events_field_selector(args).kind = "Job"
        /\ upgrade_events_field_selector(args).name = Created("Job").name
        /\ events_field_selector(args) = upgrade_events_field_selector(args)

C33_Witness ==
    /\ made = {Created(k) : k \in Kinds}
    /\ args.release = <<"my", "-", "upgrade">>
    /\ args.ns = "default"
    /\ args.tag = <<"develop">>


(***************************************************************************)
(* C34: the poll loop ends at the first poll that finds an upgrade Event,  *)
(* whatever the Event holds: no later poll is made and the Event found is  *)
(* never replaced; once "upgrade started" has been reported the attempt    *)
(* has returned Ok and no delete is ever issued, also when the Job posts   *)
(* a "Validation Failed" Event afterwards.                                 *)
(***************************************************************************)
C34_FirstEventEndsPolling ==
    /\ [][latest # NoEvent => (polls' = polls /\ latest' = latest)]_vars
    /\ [](latest # NoEvent => pc # "poll")
    /\ []("upgrade started" \in console =>
            /\ Finished
            /\ result = "ok"
            /\ dtask = NoTasks
            /\ {CreateIdentity(k, args) : k \in Kinds} \subseteq present)

C34_Witness ==
    /\ "upgrade started" \in console
    /\ polls < PollAttempts
    /\ \E e \in events : e.action = "Validation Failed" /\ e.time > latest.time
    /\ Finished
    /\ dtask = NoTasks


(***************************************************************************)
(* C35: when the Event found has the action "Validation Failed" and no     *)
(* note, or a note that is not the JSON of an UpgradeEvent, apply_upgrade  *)
(* returns an error and issues no delete: the five objects stay.           *)
(***************************************************************************)
C35_UnreadableNoteKeepsBundle ==
    (latest.action = "Validation Failed" /\ latest.note # "json") =>
        /\ Finished
        /\ result = "err"
        /\ dtask = NoTasks
        /\ {CreateIdentity(k, args) : k \in Kinds} \subseteq present
        /\ terminating = {}
        /\ "validation failed" \notin console

C35_Witness ==
    /\ latest.action = "Validation Failed"
    /\ latest.note = "bad"
    /\ result = "err"
    /\ Cardinality(present) = 5
    /\ Cardinality(events) = 2


(***************************************************************************)
(* C36: when one of the five creates fails, create_upgrade_resources       *)
(* returns the error without cancelling the creates still in flight (they  *)
(* stay spawned and may still create their object) and without a delete:   *)
(* from then on no object of the cluster is removed by it.                 *)
(***************************************************************************)
CreateFailed ==
    /\ Finished
    /\ result = "err"
    /\ \E k \in Kinds : ctask[k] = "err"

C36_FailedCreateLeavesOthersRunning ==
    /\ [][(pc = "creating" /\ pc' = "done") =>
            \A k \in Kinds : ctask[k] = "spawned" => ctask'[k] = "spawned"]_vars
    /\ [](CreateFailed => dtask = NoTasks)
    /\ [][CreateFailed => present \subseteq present']_vars

C36_Witness ==
    /\ CreateFailed
    /\ ctask["Job"] = "err"
    /\ ctask["ConfigMap"] = "Created"
    /\ ctask["ClusterRole"] = "spawned"
    /\ CreateIdentity("ConfigMap", args) \in present
    /\ CreateIdentity("ClusterRole", args) \notin present
    /\ dtask = NoTasks


(***************************************************************************)
(* C37: with attempts for releases of one name in two namespaces, every    *)
(* object an attempt created or relies on stays in the cluster until that  *)
(* attempt's own rollback, the ClusterRoleBinding an attempt relies on     *)
(* binds the ServiceAccount of that attempt's namespace, and the           *)
(* ClusterRoles and ClusterRoleBindings of the two attempts are distinct.  *)
(***************************************************************************)
C37_NamespacesDoNotInterfere ==
    /\ \A r \in targeted :
            /\ CreateIdentity(r.kind, InNamespace(r.ns)) \in present
            /\ r.kind = "ClusterRoleBinding" =>
                    \E b \in made :
                        /\ b.name = CreateIdentity(r.kind, InNamespace(r.ns)).name
                        /\ b.subject.namespace = r.ns
    /\ \A k \in {"ClusterRole", "ClusterRoleBinding"} :
            (Relies("openebs", k) \in targeted /\ Relies("storage", k) \in targeted) =>
                CreateIdentity(k, InNamespace("openebs"))
                    # CreateIdentity(k, InNamespace("storage"))


(***************************************************************************)
(* C38: when a --set-file argument is not exactly key=path, or a set-file  *)
(* cannot be read, or no listed Pod holds a container of a known name,     *)
(* create_upgrade_resources returns an error and no create request is      *)
(* issued: no create task exists and the cluster holds no object.          *)
(***************************************************************************)
MalformedSetFile(in) ==
    \E i \in DOMAIN in.set.set_file : Len(split(in.set.set_file[i], "=")) # 2

UnreadableSetFile(in) ==
    \E i \in DOMAIN in.set.set_file :
        LET data == split(in.set.set_file[i], "=")
        IN  Len(data) = 2 /\ read_to_string(in.set.files, data[2]) = <<>>

NoImageSource(in) ==
    \/ ~in.image.listOk
    \/ \A i \in DOMAIN in.image.pods :
            \/ in.image.pods[i].spec = <<>>
            \/ \A j \in DOMAIN in.image.pods[i].spec[1] :
                    in.image.pods[i].spec[1][j].name
                        \notin openebs_containers(in.image.release_name)

C38_BuildFailureCreatesNothing ==
    (pc # "idle" /\ (\/ MalformedSetFile(input[1])
                     \/ UnreadableSetFile(input[1])
                     \/ NoImageSource(input[1]))) =>
        /\ Finished
        /\ result = "err"
        /\ ctask = NoTasks
        /\ present = {}

C38_Witness ==
    /\ Finished
    /\ result = "err"
    /\ ctask = NoTasks
    /\ Len(input[1].set.set_file) = 2
    /\ ~MalformedSetFile(input[1])
    /\ ~UnreadableSetFile(input[1])
    /\ input[1].image.listOk
    /\ input[1].image.pods = << [spec |-> << <<Sidecar>> >>] >>


(***************************************************************************)
(* C39: apply_upgrade run again while the five objects of the release and  *)
(* version exist purges the Events, has none of its creates answered       *)
(* Created (the fan-out that succeeds got AlreadyExists five times) and    *)
(* leaves the stored objects as they were: the same five, one Job, the     *)
(* ConfigMap with the data of the earlier run.                             *)
(***************************************************************************)
EarlierObjects ==
    {[id |-> CreateIdentity(k, args),
      data |-> IF k = "ConfigMap" THEN set_file_resources(input[2]).data ELSE EmptyMap,
      set_file |-> IF k = "Job" THEN set_file_resources(input[2]).set_file ELSE <<>>]
        : k \in Kinds}

C39_RerunChangesNothing ==
    /\ purged => events = {}
    /\ \A k \in Kinds : ctask[k] # "Created"
    /\ (pc = "creating" /\ CreateJoin(ctask) = "ok") =>
            \A k \in Kinds : ctask[k] = "AlreadyExists"
    /\ present = Bundle(args)
    /\ terminating = {}
    /\ made = EarlierObjects
    /\ Cardinality({o \in made : o.id.kind = "Job"}) = 1

C39_Witness ==
    /\ pc = "poll"
    /\ purged
    /\ \A k \in Kinds : ctask[k] = "ok"
    /\ Len(input[1].set_file) = 2
    /\ set_file_resources(input[1]).data # set_file_resources(input[2]).data
    /\ made = EarlierObjects


(***************************************************************************)
(* C40: a poll whose list of Events fails with an API error counts as one  *)
(* of the six attempts and as no Event found: nothing is printed, no Event *)
(* is taken, no delete is issued, no object changes, and the command goes  *)
(* on polling or, after the sixth attempt, returns Ok.                     *)
(***************************************************************************)
C40_ListErrorIsNoEventYet ==
    [][(pc = "poll" /\ faults' = faults + 1) =>
            /\ polls' = polls + 1
            /\ console' = console
            /\ latest' = latest
            /\ dtask' = dtask
            /\ present' = present
            /\ terminating' = terminating
            /\ IF polls + 1 = PollAttempts
               THEN pc' = "done" /\ result' = "ok"
               ELSE pc' = "poll" /\ result' = result]_vars

C40_Witness ==
    /\ pc = "poll"
    /\ faults = MaxFaults
    /\ polls = PollAttempts - 1
    /\ latest = NoEvent
    /\ console = {}
    /\ \E e \in events : e.action = "Validation Failed" /\ e.note = "json"
    /\ dtask = NoTasks
    /\ present = Bundle(args)

====
